---- MODULE Spec2Model ----
(***************************************************************************)
(* Model of the PandarCoder task core: the sandbox policy helpers          *)
(* (backend/app/services/sandbox.py), the task service                     *)
(* (backend/app/services/task.py) and the unattended task runner           *)
(* (backend/app/services/runner.py).                                       *)
(*                                                                         *)
(* Python strings are sequences of one-character strings, so that strip,   *)
(* lower, split, substring search and the regular expressions are computed *)
(* character by character.  JSON values are records with a tag k and a    *)
(* payload field named after the kind (b, n, f, s, l, m).                  *)
(* A NULL column is NoneInt for integer/timestamp columns and the empty    *)
(* sequence for the text columns output and error (the code never stores   *)
(* an empty string in either).                                             *)
(***************************************************************************)
EXTENDS Integers, Sequences, FiniteSets, TLC

\* ------------------------------------------------------------------------
\* Characters and string helpers (Python str methods used by the code)
\* ------------------------------------------------------------------------
Whitespace == {" ", "\t", "\n"}

UpperChars == <<"A", "B", "C", "D", "E", "F", "G", "H", "I", "J", "K", "L", "M", "N", "O", "P", "Q", "R", "S", "T", "U", "V", "W", "X", "Y", "Z">>

LowerChars == <<"a", "b", "c", "d", "e", "f", "g", "h", "i", "j", "k", "l", "m", "n", "o", "p", "q", "r", "s", "t", "u", "v", "w", "x", "y", "z">>

\* the grave accent character (U+0060), written by name
Backtick == "grave"

Range(s) == {s[i] : i \in DOMAIN s}

Min(S) == CHOOSE x \in S : \A y \in S : x <= y

\* str.lower() on one character
LowerChar(c) ==
    IF \E i \in 1..26 : UpperChars[i] = c
    THEN LowerChars[CHOOSE i \in 1..26 : UpperChars[i] = c]
    ELSE c

\* str.lower()
Lower(s) == [i \in 1..Len(s) |-> LowerChar(s[i])]

\* str.strip()
Strip(s) ==
    LET nz == {i \in 1..Len(s) : s[i] \notin Whitespace}
    IN  IF nz = {} THEN <<>> ELSE SubSeq(s, Min(nz), CHOOSE x \in nz : \A y \in nz : x >= y)

\* s.split()[0] for a string with at least one non-blank character
FirstToken(s) ==
    LET st == Strip(s)
        ws == {i \in 1..Len(st) : st[i] \in Whitespace}
    IN  IF ws = {} THEN st ELSE SubSeq(st, 1, Min(ws) - 1)

\* the test "frag in s"
Contains(s, frag) ==
    \E i \in 1..(Len(s) - Len(frag) + 1) : SubSeq(s, i, i + Len(frag) - 1) = frag

\* the regular-expression class \w (ASCII)
WordChar(c) == c \in Range(UpperChars) \cup Range(LowerChars) \cup {"0", "1", "2", "3", "4", "5", "6", "7", "8", "9"} \cup {"_"}

\* the regular-expression assertion \b before position i when s[i] is a word character
WordStartAt(s, i) == i = 1 \/ ~WordChar(s[i - 1])

\* ------------------------------------------------------------------------
\* SandboxManager._validate_command
\* ------------------------------------------------------------------------
\* _DANGEROUS_SUBSTRINGS, in tuple order; shown is fragment.strip() as the
\* error message prints it
_DANGEROUS_SUBSTRINGS == <<
    [frag |-> <<"r", "m", " ", "-", "r", "f">>, shown |-> "rm -rf"],
    [frag |-> <<"s", "u", "d", "o">>, shown |-> "sudo"],
    [frag |-> <<"&", "&">>, shown |-> "&&"],
    [frag |-> <<";">>, shown |-> ";"],
    [frag |-> <<"|">>, shown |-> "|"],
    [frag |-> <<"c", "u", "r", "l", " ", "h", "t", "t", "p">>, shown |-> "curl http"],
    [frag |-> <<"w", "g", "e", "t", " ", "h", "t", "t", "p">>, shown |-> "wget http"],
    [frag |-> <<"n", "c", " ">>, shown |-> "nc"],
    [frag |-> <<"s", "s", "h", " ">>, shown |-> "ssh"]
>>

\* _DANGEROUS_PATTERNS[0]: word boundary, rm, one or more blanks, a dash, one of r f R F
PatternRmFlags(s) ==
    \E i \in 1..Len(s) :
        /\ WordStartAt(s, i)
        /\ i + 1 <= Len(s) /\ s[i] = "r" /\ s[i + 1] = "m"
        /\ \E j \in (i + 2)..Len(s) :
              /\ \A n \in (i + 2)..j : s[n] \in Whitespace
              /\ j + 2 <= Len(s)
              /\ s[j + 1] = "-"
              /\ s[j + 2] \in {"r", "f", "R", "F"}

\* _DANGEROUS_PATTERNS[1]: a backtick, one or more characters other than a backtick, a backtick
PatternBackticks(s) ==
    \E i \in 1..Len(s) : \E j \in (i + 2)..Len(s) :
        /\ s[i] = Backtick /\ s[j] = Backtick
        /\ \A n \in (i + 1)..(j - 1) : s[n] # Backtick

\* _DANGEROUS_PATTERNS[2]: dollar, open parenthesis, any characters other than a closing
\* parenthesis, a closing parenthesis
PatternSubstitution(s) ==
    \E i \in 1..Len(s) : \E j \in (i + 2)..Len(s) :
        /\ s[i] = "$" /\ s[i + 1] = "(" /\ s[j] = ")"
        /\ \A n \in (i + 2)..(j - 1) : s[n] # ")"

DevPrefix == <<"/", "d", "e", "v", "/">>

\* _DANGEROUS_PATTERNS[3]: greater-than, any blanks, /dev/ and one of null, zero, tty
PatternDevRedirect(s) ==
    \E i \in 1..Len(s) : \E j \in i..Len(s) :
        /\ s[i] = ">"
        /\ \A n \in (i + 1)..j : s[n] \in Whitespace
        /\ \E d \in {<<"n", "u", "l", "l">>, <<"z", "e", "r", "o">>, <<"t", "t", "y">>} :
              /\ j + Len(DevPrefix) + Len(d) <= Len(s)
              /\ SubSeq(s, j + 1, j + Len(DevPrefix) + Len(d)) = DevPrefix \o d

\* any(pattern.search(s) for pattern in _DANGEROUS_PATTERNS)
_DANGEROUS_PATTERNS(s) ==
    PatternRmFlags(s) \/ PatternBackticks(s) \/ PatternSubstitution(s) \/ PatternDevRedirect(s)

\* the outcome of a call: exc = "none" and a value, or the exception raised
Returned(val) == [exc |-> "none", msg |-> "", value |-> val]

Raised(kind, message) == [exc |-> kind, msg |-> message, value |-> [k |-> "null"]]

\* f"Command contains disallowed fragment: '{fragment.strip()}'."
FragmentMessage(shown) == "Command contains disallowed fragment: '" \o shown \o "'."

\* _validate_command without the test for an empty command
_validate_command_accepts_empty(command) ==
    LET command_stripped == Strip(command)
        lowered == Lower(command_stripped)
        hits == {n \in DOMAIN _DANGEROUS_SUBSTRINGS :
                    Contains(lowered, _DANGEROUS_SUBSTRINGS[n].frag)}
    IN  IF hits # {}
        THEN Raised("SandboxError", FragmentMessage(_DANGEROUS_SUBSTRINGS[Min(hits)].shown))
        ELSE IF _DANGEROUS_PATTERNS(command_stripped)
        THEN Raised("SandboxError", "Command contains potentially unsafe pattern")
        ELSE Returned([k |-> "null"])

\* _validate_command: returns None when the command is accepted
_validate_command(command) ==
    LET command_stripped == Strip(command)
        lowered == Lower(command_stripped)
        hits == {n \in DOMAIN _DANGEROUS_SUBSTRINGS :
                    Contains(lowered, _DANGEROUS_SUBSTRINGS[n].frag)}
    IN  IF command_stripped = <<>>
        THEN Raised("SandboxError", "Command cannot be empty")
        ELSE IF hits # {}
        THEN Raised("SandboxError", FragmentMessage(_DANGEROUS_SUBSTRINGS[Min(hits)].shown))
        ELSE IF _DANGEROUS_PATTERNS(command_stripped)
        THEN Raised("SandboxError", "Command contains potentially unsafe pattern")
        ELSE Returned([k |-> "null"])

\* ------------------------------------------------------------------------
\* JSON values (the contents of Task.task_metadata) and the Python tests on them
\* ------------------------------------------------------------------------
Null == [k |-> "null"]

Bool(b) == [k |-> "bool", b |-> b]

\* an int
Num(n) == [k |-> "num", n |-> n]

\* a float, held in tenths (cpu 1.5 is Float10(15))
Float10(n) == [k |-> "float", f |-> n]

\* a str: s is its sequence of characters
Str(s) == [k |-> "str", s |-> s]

\* a list: l is the sequence of its items
List(q) == [k |-> "list", l |-> q]

\* a dict: m is a function on its keys
Map(f) == [k |-> "map", m |-> f]

EmptyDict == <<>>

IsMapping(x) == x.k = "map"

\* x is None
IsNone(x) == x.k = "null"

\* x is False
IsFalse(x) == x.k = "bool" /\ ~x.b

\* bool(x)
Truthy(x) ==
    CASE x.k = "null" -> FALSE
      [] x.k = "bool" -> x.b
      [] x.k = "num" -> x.n # 0
      [] x.k = "float" -> x.f # 0
      [] x.k = "str" -> x.s # <<>>
      [] x.k = "list" -> x.l # <<>>
      [] x.k = "map" -> DOMAIN x.m # {}

\* d.get(key) on a dict body d
Get(d, key) == IF key \in DOMAIN d THEN d[key] ELSE Null

\* x == True in Python (True, 1 and 1.0 compare equal to True)
EqualsTrue(x) ==
    \/ x.k = "bool" /\ x.b
    \/ x.k = "num" /\ x.n = 1
    \/ x.k = "float" /\ x.f = 10

\* str(x) for the scalar values the inputs contain
PyStr(x) ==
    CASE x.k = "str" -> x.s
      [] x.k = "null" -> <<"N", "o", "n", "e">>
      [] x.k = "bool" -> IF x.b THEN <<"T", "r", "u", "e">> ELSE <<"F", "a", "l", "s", "e">>

\* code point order of the characters used in capability names
AsciiOrder == <<"0", "1", "2", "3", "4", "5", "6", "7", "8", "9", "A", "B", "C", "D", "E", "F", "G", "H", "I", "J", "K", "L", "M", "N", "O", "P", "Q", "R", "S", "T", "U", "V", "W", "X", "Y", "Z", "_", "a", "b", "c", "d", "e", "f", "g", "h", "i", "j", "k", "l", "m", "n", "o", "p", "q", "r", "s", "t", "u", "v", "w", "x", "y", "z">>

Ord(c) == CHOOSE i \in DOMAIN AsciiOrder : AsciiOrder[i] = c

\* a < b for Python strings
StrLess(a, b) ==
    \/ /\ Len(a) < Len(b)
       /\ SubSeq(b, 1, Len(a)) = a
    \/ \E i \in 1..Min({Len(a), Len(b)}) :
          /\ SubSeq(a, 1, i - 1) = SubSeq(b, 1, i - 1)
          /\ Ord(a[i]) < Ord(b[i])

\* sorted(S) for a set S of strings
RECURSIVE sorted(_)
sorted(S) ==
    IF S = {} THEN <<>>
    ELSE LET least == CHOOSE a \in S : \A b \in S \ {a} : StrLess(a, b)
         IN  <<least>> \o sorted(S \ {least})

\* ------------------------------------------------------------------------
\* SandboxLimits, SandboxProfile and SandboxManager (services/sandbox.py)
\* ------------------------------------------------------------------------
CODEX == <<"c", "o", "d", "e", "x">>

CLAUDE == <<"c", "l", "a", "u", "d", "e">>

SUPPORTED_AGENTS == {CODEX, CLAUDE}

CAP_CHOWN == <<"C", "A", "P", "_", "C", "H", "O", "W", "N">>

CAP_DAC_OVERRIDE == <<"C", "A", "P", "_", "D", "A", "C", "_", "O", "V", "E", "R", "R", "I", "D", "E">>

CAP_SETUID == <<"C", "A", "P", "_", "S", "E", "T", "U", "I", "D">>

WORKING_DIR == <<"/", "a", "p", "p", "/", "w", "o", "r", "k", "s", "p", "a", "c", "e">>

CodexProfile ==
    [name |-> <<"c", "o", "d", "e", "x", "-", "s", "t", "a", "n", "d", "a", "r", "d">>,
     limits |-> [cpu |-> 10, memory_mb |-> 512, disk_mb |-> 1024, timeout_seconds |-> 1800,
                 allow_network |-> FALSE, working_dir |-> WORKING_DIR],
     capabilities |-> {CAP_CHOWN, CAP_DAC_OVERRIDE}]

ClaudeProfile ==
    [name |-> <<"c", "l", "a", "u", "d", "e", "-", "s", "t", "a", "n", "d", "a", "r", "d">>,
     limits |-> [cpu |-> 15, memory_mb |-> 768, disk_mb |-> 1536, timeout_seconds |-> 2400,
                 allow_network |-> FALSE, working_dir |-> WORKING_DIR],
     capabilities |-> {CAP_CHOWN, CAP_DAC_OVERRIDE, CAP_SETUID}]

\* _DEFAULT_PROFILES: a sequence of (agent, profile) pairs
_DEFAULT_PROFILES == <<[agent |-> CODEX, profile |-> CodexProfile],
                       [agent |-> CLAUDE, profile |-> ClaudeProfile]>>

\* the value meaning "no profile" (None)
NoProfile ==
    [name |-> <<>>,
     limits |-> [cpu |-> 0, memory_mb |-> 0, disk_mb |-> 0, timeout_seconds |-> 0,
                 allow_network |-> FALSE, working_dir |-> <<>>],
     capabilities |-> {}]

\* self._profiles.get(agent)
ProfileOf(agent) ==
    IF \E n \in DOMAIN _DEFAULT_PROFILES : _DEFAULT_PROFILES[n].agent = agent
    THEN _DEFAULT_PROFILES[CHOOSE n \in DOMAIN _DEFAULT_PROFILES :
                               _DEFAULT_PROFILES[n].agent = agent].profile
    ELSE NoProfile

\* SandboxLimits.to_metadata merged into SandboxProfile.to_metadata: a dict body
to_metadata(profile) ==
    [enabled |-> Bool(TRUE),
     profile |-> Str(profile.name),
     limits |-> Map([cpu |-> Float10(profile.limits.cpu),
                     memory_mb |-> Num(profile.limits.memory_mb),
                     disk_mb |-> Num(profile.limits.disk_mb),
                     timeout_seconds |-> Num(profile.limits.timeout_seconds)]),
     network |-> Map([allow |-> Bool(profile.limits.allow_network)]),
     working_dir |-> Str(profile.limits.working_dir),
     capabilities |-> List([i \in 1..Cardinality(profile.capabilities) |->
                               Str(sorted(profile.capabilities)[i])])]

\* d[key] = val on a dict body
Put(d, key, val) == [x \in DOMAIN d \cup {key} |-> IF x = key THEN val ELSE d[x]]

\* the dict body d without the keys in ks
Without(d, ks) == [x \in DOMAIN d \ ks |-> d[x]]

MandatoryMessage == "Sandbox execution is mandatory for codex/claude agents"

\* _normalise_agent that infers nothing from the command
_normalise_agent_explicit_only(agent, command) ==
    IF Truthy(agent) /\ Lower(Strip(PyStr(agent))) # <<>>
    THEN Str(Lower(Strip(PyStr(agent))))
    ELSE Null

\* _normalise_agent: Str(agent) or Null
_normalise_agent(agent, command) ==
    IF Truthy(agent)
    THEN LET given == Lower(Strip(PyStr(agent)))
         IN  IF given # <<>> THEN Str(given) ELSE Null
    ELSE LET lowered == Lower(Strip(command))
         IN  IF lowered = <<>> THEN Null
             ELSE IF FirstToken(lowered) \in SUPPORTED_AGENTS
                  THEN Str(FirstToken(lowered))
                  ELSE Null

\* agent in self.SUPPORTED_AGENTS, for the result of _normalise_agent
IsSupported(agent) == agent.k = "str" /\ agent.s \in SUPPORTED_AGENTS

\* the strings that the capabilities override adds
CapabilityItems(value) ==
    IF value.k = "list"
    THEN {PyStr(value.l[i]) : i \in DOMAIN value.l}
    ELSE {PyStr(value)}

\* set(merged.get("capabilities", [])): the items of a list of strings, the characters
\* of a string
CapabilitySet(merged) ==
    IF "capabilities" \notin DOMAIN merged THEN {}
    ELSE IF merged["capabilities"].k = "str"
    THEN {<<merged["capabilities"].s[i]>> : i \in DOMAIN merged["capabilities"].s}
    ELSE {merged["capabilities"].l[i].s : i \in DOMAIN merged["capabilities"].l}

\* _recursive_merge raises SandboxError: an "enabled" key with the value False,
\* at the top or in a nested mapping merged into a nested default
RECURSIVE MergeRaises(_, _)
MergeRaises(base, overrides) ==
    \E key \in DOMAIN overrides :
        \/ key = "enabled" /\ IsFalse(overrides[key])
        \/ /\ key \in DOMAIN base
           /\ IsMapping(base[key])
           /\ IsMapping(overrides[key])
           /\ MergeRaises(base[key].m, overrides[key].m)

\* _recursive_merge raises TypeError: set(merged.get("capabilities", [])) on a value that
\* is not iterable, at the top or in a nested mapping merged into a nested default
RECURSIVE MergeTypeError(_, _)
MergeTypeError(base, overrides) ==
    \E key \in DOMAIN overrides :
        IF key \in DOMAIN base /\ IsMapping(base[key]) /\ IsMapping(overrides[key])
        THEN MergeTypeError(base[key].m, overrides[key].m)
        ELSE /\ key = "capabilities"
             /\ ~IsNone(overrides[key])
             /\ key \in DOMAIN base
             /\ base[key].k \in {"null", "bool", "num", "float"}

\* a merge that replaces every key the override names, nested mappings included
MergeValueShallow(base, overrides) ==
    [key \in DOMAIN base \cup DOMAIN overrides |->
        IF key \in DOMAIN overrides THEN overrides[key] ELSE base[key]]

\* the dict body _recursive_merge returns when it does not raise
RECURSIVE MergeValue(_, _)
MergeValue(base, overrides) ==
    [key \in DOMAIN base \cup DOMAIN overrides |->
        IF key \notin DOMAIN overrides THEN base[key]
        ELSE IF key \in DOMAIN base /\ IsMapping(base[key]) /\ IsMapping(overrides[key])
        THEN Map(MergeValue(base[key].m, overrides[key].m))
        ELSE IF key = "capabilities" /\ ~IsNone(overrides[key])
        THEN LET capabilities == CapabilitySet(base) \cup CapabilityItems(overrides[key])
             IN  List([i \in 1..Cardinality(capabilities) |-> Str(sorted(capabilities)[i])])
        ELSE overrides[key]]

\* _recursive_merge(base, overrides) for a dict body base and a JSON value overrides
_recursive_merge(base, overrides) ==
    IF ~IsMapping(overrides)
    THEN Raised("AttributeError", "object has no attribute 'items'")
    ELSE IF MergeRaises(base, overrides.m)
    THEN Raised("SandboxError", MandatoryMessage)
    ELSE IF MergeTypeError(base, overrides.m)
    THEN Raised("TypeError", "object is not iterable")
    ELSE Returned(Map(MergeValue(base, overrides.m)))

\* _merge_metadata(profile, overrides)
_merge_metadata(profile, overrides) ==
    LET base == IF profile # NoProfile THEN to_metadata(profile) ELSE [enabled |-> Bool(TRUE)]
    IN  IF ~Truthy(overrides)
        THEN Returned(Map(base))
        ELSE _recursive_merge(base, overrides)

\* ensure_sandbox_metadata(command, metadata): Returned(Map(..)) or the exception
ensure_sandbox_metadata(command, metadata) ==
    LET checked == _validate_command(command)
        metadata_in == IF Truthy(metadata) THEN metadata.m ELSE EmptyDict
        agent == _normalise_agent(Get(metadata_in, "agent"), command)
        metadata_copy == IF Truthy(agent) THEN Put(metadata_in, "agent", agent) ELSE metadata_in
        overrides == Get(metadata_copy, "sandbox")
        profile == IF IsSupported(agent) THEN ProfileOf(agent.s) ELSE NoProfile
        merged == _merge_metadata(profile, overrides)
    IN  IF checked.exc # "none" THEN checked
        ELSE IF IsSupported(agent)
        THEN IF IsMapping(overrides) /\ IsFalse(Get(overrides.m, "enabled"))
             THEN Raised("SandboxError", MandatoryMessage)
             ELSE IF profile = NoProfile
             THEN Raised("SandboxError", "No sandbox profile configured for agent")
             ELSE IF merged.exc # "none" THEN merged
             ELSE Returned(Map(Put(metadata_copy, "sandbox", merged.value)))
        ELSE IF Truthy(overrides)
        THEN IF merged.exc # "none" THEN merged
             ELSE Returned(Map(Put(metadata_copy, "sandbox", merged.value)))
        ELSE Returned(Map(metadata_copy))

\* the object that metadata_copy names if the argument were used without a copy
MetadataCopyAliased(metadata) == "input"

\* metadata_copy = copy.deepcopy(metadata) if metadata else {}: the object that the local
\* variable names: "input" is the caller's mapping, "copy" its deep copy, "fresh" a new {}
MetadataCopy(metadata) == IF Truthy(metadata) THEN "copy" ELSE "fresh"

\* the contents of metadata_copy when ensure_sandbox_metadata returns or raises: the
\* statements metadata_copy["agent"] = agent and metadata_copy["sandbox"] = merged are
\* the only writes into a mapping that the function did not build itself
\* (_recursive_merge writes into its own deep copy of base and only reads overrides)
WrittenMetadata(command, metadata) ==
    LET result == ensure_sandbox_metadata(command, metadata)
        metadata_in == IF Truthy(metadata) THEN metadata.m ELSE EmptyDict
        agent == _normalise_agent(Get(metadata_in, "agent"), command)
    IN  IF _validate_command(command).exc # "none" THEN metadata
        ELSE IF result.exc = "none" THEN result.value
        ELSE IF Truthy(agent) THEN Map(Put(metadata_in, "agent", agent))
        ELSE Map(metadata_in)

\* the caller's mapping after ensure_sandbox_metadata(command, metadata) returned or raised
CallerMetadataAfter(command, metadata) ==
    IF MetadataCopy(metadata) = "input" THEN WrittenMetadata(command, metadata) ELSE metadata

\* should_use_sandbox that asks for the sandbox whatever the agent
should_use_sandbox_always(metadata, command) == TRUE

\* should_use_sandbox that knows the codex agent only
should_use_sandbox_codex_only(metadata, command) ==
    _normalise_agent(IF Truthy(metadata) THEN Get(metadata.m, "agent") ELSE Null,
                     command) = Str(CODEX)

\* should_use_sandbox(metadata, command)
should_use_sandbox(metadata, command) ==
    IsSupported(_normalise_agent(IF Truthy(metadata) THEN Get(metadata.m, "agent") ELSE Null,
                                 command))

\* build_submission that accepts every agent
build_submission_any_agent(command, metadata) ==
    LET metadata_in == IF Truthy(metadata) THEN metadata.m ELSE EmptyDict
        agent == _normalise_agent(Get(metadata_in, "agent"), command)
        profile == IF IsSupported(agent) THEN ProfileOf(agent.s) ELSE NoProfile
        merged == _merge_metadata(profile, Get(metadata_in, "sandbox"))
    IN  IF merged.exc # "none" THEN merged
        ELSE Returned(Map([agent |-> agent,
                           command |-> Str(command),
                           sandbox |-> merged.value,
                           metadata |-> Map(Without(metadata_in, {"agent", "sandbox"}))]))

\* SandboxManager.build_submission and SandboxSubmission.to_payload: the payload
\* (a JSON mapping with the keys agent, command, sandbox, metadata) or SandboxError
build_submission(command, metadata) ==
    LET metadata_in == IF Truthy(metadata) THEN metadata.m ELSE EmptyDict
        agent == _normalise_agent(Get(metadata_in, "agent"), command)
        profile == IF IsSupported(agent) THEN ProfileOf(agent.s) ELSE NoProfile
        merged == _merge_metadata(profile, Get(metadata_in, "sandbox"))
    IN  IF ~IsSupported(agent)
        THEN Raised("SandboxError", "Sandbox submission requires a codex/claude agent")
        ELSE IF merged.exc # "none" THEN merged
        ELSE Returned(Map([agent |-> agent,
                           command |-> Str(command),
                           sandbox |-> merged.value,
                           metadata |-> Map(Without(metadata_in, {"agent", "sandbox"}))]))

\* ------------------------------------------------------------------------
\* Task rows (models/task.py) and the bounds of the model
\* ------------------------------------------------------------------------
\* the largest number of rows in the tasks table
MaxTasks == 1

\* the largest number of rows in the tasks table when the scheduler's queue is studied
MaxQueue == 2

\* the last value of the clock (datetime.utcnow(), func.now())
MaxTime == 1

\* the largest number of API calls (create, update, start, cancel, confirm, retry)
MaxCalls == 3

\* NULL in an integer or timestamp column
NoneInt == 0 - 1

\* TaskPriority in declaration order: the index the Enum column sorts by
TaskPriority == <<"LOW", "MEDIUM", "HIGH", "URGENT">>

PriorityRank(p) == CHOOSE n \in DOMAIN TaskPriority : TaskPriority[n] = p

\* the columns of a Task row that the policy core reads or writes
NewTask(command, priority, scheduled_at, metadata, created) ==
    [command |-> command,
     priority |-> priority,
     status |-> "PENDING",
     output |-> <<>>,
     error |-> <<>>,
     exit_code |-> NoneInt,
     progress |-> NoneInt,
     duration |-> NoneInt,
     created_at |-> created,
     started_at |-> NoneInt,
     completed_at |-> NoneInt,
     scheduled_at |-> scheduled_at,
     task_metadata |-> metadata]

\* the runner holds no ORM object
NoTask == NewTask(<<>>, "LOW", NoneInt, Null, NoneInt)

\* ------------------------------------------------------------------------
\* Requests (schemas/task.py)
\* ------------------------------------------------------------------------
\* TaskBase.validate_command raises ValueError: the command is blank or holds one of the
\* substrings the request schema refuses
SchemaRejects(command) ==
    \/ Strip(command) = <<>>
    \/ \E d \in {<<"r", "m", " ", "-", "r", "f">>,
                 <<"s", "u", "d", "o">>,
                 <<"s", "u">>,
                 <<"c", "h", "m", "o", "d", " ", "7", "7", "7">>,
                 <<"d", "d", " ", "i", "f", "=">>,
                 <<"m", "k", "f", "s">>,
                 <<"f", "d", "i", "s", "k">>} : Contains(Lower(command), d)

CmdCodexLint == <<"c", "o", "d", "e", "x", " ", "l", "i", "n", "t">>

CmdNpmTest == <<"n", "p", "m", " ", "t", "e", "s", "t">>

CmdClaudePlan == <<" ", "C", "l", "a", "u", "d", "e", " ", "p", "l", "a", "n">>

CmdChained == <<"c", "o", "d", "e", "x", " ", "r", "u", "n", ";", " ", "l", "s">>

CmdBlank == <<" ", " ">>

GEMINI == <<"g", "e", "m", "i", "n", "i">>

MANUAL == <<"m", "a", "n", "u", "a", "l">>

AUTO_WITH_GATES == <<"a", "u", "t", "o", "_", "w", "i", "t", "h", "_", "g", "a", "t", "e", "s">>

AUTO == <<"a", "u", "t", "o">>

MdEmpty == Map(EmptyDict)

MdCodex == Map([agent |-> Str(CODEX)])

MdGemini == Map([agent |-> Str(GEMINI)])

MdDisabled == Map([agent |-> Str(CODEX), sandbox |-> Map([enabled |-> Bool(FALSE)])])

MdEnabledZero == Map([agent |-> Str(CODEX), sandbox |-> Map([enabled |-> Num(0)])])

MdGated == Map([approval_policy |-> Str(MANUAL), gates |-> List(<<Str(<<"d", "e", "p", "l", "o", "y">>)>>)])

MdClaudeOverrides ==
    Map([agent |-> Str(<<"C", "L", "A", "U", "D", "E">>),
         sandbox |-> Map([limits |-> Map([memory_mb |-> Num(1024)]),
                          capabilities |-> List(<<Str(<<"C", "A", "P", "_", "S", "Y", "S", "_", "P", "T", "R", "A", "C", "E">>)>>)])])

MdSandboxString == Map([sandbox |-> Str(<<"s", "t", "r", "i", "c", "t">>)])

\* CreateTaskRequest values the model submits
CreateRequests ==
    <<[command |-> CmdCodexLint, priority |-> "MEDIUM", scheduled_at |-> NoneInt, metadata |-> MdEmpty],
      [command |-> CmdNpmTest, priority |-> "HIGH", scheduled_at |-> NoneInt, metadata |-> MdEmpty],
      [command |-> CmdNpmTest, priority |-> "LOW", scheduled_at |-> 1, metadata |-> MdGemini],
      [command |-> CmdNpmTest, priority |-> "MEDIUM", scheduled_at |-> NoneInt, metadata |-> MdGated],
      [command |-> CmdClaudePlan, priority |-> "HIGH", scheduled_at |-> NoneInt, metadata |-> MdClaudeOverrides],
      [command |-> CmdCodexLint, priority |-> "LOW", scheduled_at |-> NoneInt, metadata |-> MdEnabledZero],
      [command |-> CmdCodexLint, priority |-> "LOW", scheduled_at |-> NoneInt, metadata |-> MdDisabled],
      [command |-> CmdChained, priority |-> "LOW", scheduled_at |-> NoneInt, metadata |-> MdCodex],
      [command |-> CmdNpmTest, priority |-> "LOW", scheduled_at |-> NoneInt, metadata |-> MdSandboxString],
      [command |-> CmdBlank, priority |-> "LOW", scheduled_at |-> NoneInt, metadata |-> MdEmpty]>>

\* CreateTaskRequest values submitted when the scheduler's queue is studied
QueueRequests ==
    <<[command |-> CmdNpmTest, priority |-> "LOW", scheduled_at |-> NoneInt, metadata |-> MdEmpty],
      [command |-> CmdNpmTest, priority |-> "HIGH", scheduled_at |-> NoneInt, metadata |-> MdEmpty],
      [command |-> CmdCodexLint, priority |-> "MEDIUM", scheduled_at |-> NoneInt, metadata |-> MdEmpty],
      [command |-> CmdNpmTest, priority |-> "URGENT", scheduled_at |-> 1, metadata |-> MdEmpty]>>

\* the value of a field the UpdateTaskRequest leaves unset
Unset == "unset"

\* UpdateTaskRequest values the model submits (metadata Null: not given)
UpdateRequests ==
    {[priority |-> Unset, metadata |-> MdDisabled],
     [priority |-> Unset, metadata |-> MdGated],
     [priority |-> Unset, metadata |-> MdSandboxString],
     [priority |-> "URGENT", metadata |-> Null]}

\* ------------------------------------------------------------------------
\* State
\* ------------------------------------------------------------------------
VARIABLES
    tasks,      \* the tasks table: a sequence of rows, the id of a row is its index
    now,        \* the clock
    runner,     \* the TaskRunner coroutine: where it is and the ORM object it holds
    response,   \* what the API call of the last step returned; NoResponse after any other step
    calls,      \* the number of API calls made so far
    policy,     \* a direct call of a SandboxManager method: its arguments and its outcome
    service,    \* the TaskRunner object: _stop_event, _task, and the calls of start and stop
    peer        \* the coroutine of a second TaskRunner that polls the same table

vars == <<tasks, now, runner, response, calls, policy, service, peer>>

\* runner.pc: "select" (top of the loop in run), "sleep" (asyncio.sleep(poll_interval)),
\* "process" (a task was fetched, _process_task starts), "started" (the start was
\* committed), "execute" (the chunk loop, runner.i chunks committed)
\* "off" (start was never called), "done" (run has returned)
\* runner.obj: the Task object of the session; runner.base: its values as last
\* loaded or committed; runner.metadata: the local variable metadata of _process_task
IdleRunner(pc) ==
    [pc |-> pc, tid |-> 0, obj |-> NoTask, base |-> NoTask, metadata |-> Null, i |-> 0,
     logged |-> FALSE]

\* op: the operation; code: the HTTP status; id: the task; arg: for create_task, the
\* index of the request
NoResponse == [op |-> "none", code |-> 0, id |-> 0, arg |-> 0]

Pending == Raised("pending", "")

\* no direct call is studied
NoPolicy ==
    [pc |-> "off", command |-> <<>>, metadata |-> Null, result |-> Pending,
     caller |-> Null, ref |-> "none",
     allowed |-> [allowed |-> FALSE, reason |-> Null],
     enforced |-> TRUE, approvals_enabled |-> TRUE, decision |-> Pending,
     once |-> Pending, twice |-> Pending, again |-> Pending,
     second |-> Null, ab |-> Pending, ba |-> Pending,
     uses |-> FALSE, submission |-> Pending]

\* the tasks table is empty, the runner is at the top of its loop
InitStore ==
    /\ tasks = <<>>
    /\ now = 0
    /\ runner = IdleRunner("select")
    /\ response = NoResponse
    /\ calls = 0
    /\ service = [stop_event |-> FALSE, created |-> TRUE, loops |-> 1, last |-> "start"]
    /\ peer = IdleRunner("off")

Init ==
    /\ InitStore
    /\ policy = NoPolicy

TaskIds == DOMAIN tasks

\* session.commit() of the runner: the UPDATE carries the attributes of the object
\* whose value differs from the one last loaded or committed (expire_on_commit=False)
Flush(row, obj, base) ==
    [f \in DOMAIN row |-> IF obj[f] # base[f] THEN obj[f] ELSE row[f]]

\* the clock advances
Tick ==
    /\ now < MaxTime
    /\ now' = now + 1
    /\ response' = NoResponse
    /\ UNCHANGED <<tasks, runner, calls, policy, service, peer>>

\* ------------------------------------------------------------------------
\* TaskService (services/task.py)
\* ------------------------------------------------------------------------
\* an API call is made: the clock and the runner are left alone
Called ==
    /\ calls < MaxCalls
    /\ calls' = calls + 1
    /\ UNCHANGED <<now, runner, policy, service, peer>>

\* create_task that stores the metadata of the request and not the augmented copy
create_task_raw_metadata(requests, n, limit) ==
    LET req == requests[n]
        command == Strip(req.command)
        sandboxed == ensure_sandbox_metadata(command, req.metadata)
        failed(code) == [op |-> "create_task", code |-> code, id |-> 0, arg |-> n]
    IN  /\ Len(tasks) < limit
        /\ Called
        /\ IF SchemaRejects(req.command)
           THEN /\ response' = failed(422)
                /\ UNCHANGED tasks
           ELSE IF sandboxed.exc = "SandboxError"
           THEN /\ response' = failed(400)
                /\ UNCHANGED tasks
           ELSE IF sandboxed.exc # "none"
           THEN /\ response' = failed(500)
                /\ UNCHANGED tasks
           ELSE /\ tasks' = Append(tasks, NewTask(command, req.priority, req.scheduled_at,
                                                  req.metadata, now))
                /\ response' = [op |-> "create_task", code |-> 200, id |-> Len(tasks) + 1,
                                arg |-> n]

\* create_task, with the request schema in front of it; n is the index of the request
\* in requests, limit the size of the table
create_task(requests, n, limit) ==
    LET req == requests[n]
        command == Strip(req.command)
        sandboxed == ensure_sandbox_metadata(command, req.metadata)
        failed(code) == [op |-> "create_task", code |-> code, id |-> 0, arg |-> n]
    IN  /\ Len(tasks) < limit
        /\ Called
        /\ IF SchemaRejects(req.command)
           THEN /\ response' = failed(422)
                /\ UNCHANGED tasks
           ELSE IF sandboxed.exc = "SandboxError"
           THEN /\ response' = failed(400)
                /\ UNCHANGED tasks
           ELSE IF sandboxed.exc # "none"
           THEN /\ response' = failed(500)
                /\ UNCHANGED tasks
           ELSE /\ tasks' = Append(tasks, NewTask(command, req.priority, req.scheduled_at,
                                                  sandboxed.value, now))
                /\ response' = [op |-> "create_task", code |-> 200, id |-> Len(tasks) + 1,
                                arg |-> n]

CreateTask == \E n \in DOMAIN CreateRequests : create_task(CreateRequests, n, MaxTasks)

CreateQueued == \E n \in DOMAIN QueueRequests : create_task(QueueRequests, n, MaxQueue)

\* update_task: the in-place task_metadata.update(..) of a loaded JSON value is not
\* seen by the session and is lost at db.refresh; an assignment is written
update_task(id, upd) ==
    LET task == tasks[id]
        with_priority == IF upd.priority # Unset
                         THEN [task EXCEPT !.priority = upd.priority]
                         ELSE task
        updated == IF ~IsNone(upd.metadata) /\ ~Truthy(task.task_metadata)
                   THEN [with_priority EXCEPT !.task_metadata = upd.metadata]
                   ELSE with_priority
    IN  /\ Called
        /\ IF task.status = "RUNNING"
           THEN /\ response' = [op |-> "update_task", code |-> 400, id |-> id, arg |-> 0]
                /\ UNCHANGED tasks
           ELSE /\ tasks' = [tasks EXCEPT ![id] = updated]
                /\ response' = [op |-> "update_task", code |-> 200, id |-> id, arg |-> 0]

UpdateTask == \E id \in TaskIds : \E upd \in UpdateRequests : update_task(id, upd)

\* execute_task_action whose cancel also accepts a task waiting for confirmation
ActionSourcesCancelWaiting(action) ==
    CASE action = "start" -> {"PENDING", "FAILED"}
      [] action = "cancel" -> {"PENDING", "RUNNING", "WAITING_CONFIRMATION"}
      [] action = "confirm" -> {"WAITING_CONFIRMATION"}
      [] action = "retry" -> {"FAILED", "CANCELLED"}

\* the statuses execute_task_action accepts for each action
ActionSources(action) ==
    CASE action = "start" -> {"PENDING", "FAILED"}
      [] action = "cancel" -> {"PENDING", "RUNNING"}
      [] action = "confirm" -> {"WAITING_CONFIRMATION"}
      [] action = "retry" -> {"FAILED", "CANCELLED"}

\* the row execute_task_action commits for an accepted action
ActionResult(task, action, reason) ==
    CASE action = "start" ->
            [task EXCEPT !.status = "RUNNING", !.started_at = now]
      [] action = "cancel" ->
            [task EXCEPT !.status = "CANCELLED",
                         !.completed_at = now,
                         !.error = IF reason # ""
                                   THEN <<"task cancelled: ", reason>>
                                   ELSE task.error]
      [] action = "confirm" ->
            [task EXCEPT !.status = "RUNNING"]
      [] action = "retry" ->
            [task EXCEPT !.status = "PENDING",
                         !.started_at = NoneInt,
                         !.completed_at = NoneInt,
                         !.output = <<>>,
                         !.error = <<>>,
                         !.exit_code = NoneInt,
                         !.progress = NoneInt]

\* execute_task_action
execute_task_action(id, action, reason) ==
    /\ Called
    /\ IF tasks[id].status \notin ActionSources(action)
       THEN /\ response' = [op |-> action, code |-> 400, id |-> id, arg |-> 0]
            /\ UNCHANGED tasks
       ELSE /\ tasks' = [tasks EXCEPT ![id] = ActionResult(tasks[id], action, reason)]
            /\ response' = [op |-> action, code |-> 200, id |-> id, arg |-> 0]

StartTask == \E id \in TaskIds : execute_task_action(id, "start", "")

CancelTask == \E id \in TaskIds : \E reason \in {"", "no longer needed"} : execute_task_action(id, "cancel", reason)

ConfirmTask == \E id \in TaskIds : execute_task_action(id, "confirm", "")

RetryTask == \E id \in TaskIds : execute_task_action(id, "retry", "")

\* ------------------------------------------------------------------------
\* TaskRunner (services/runner.py)
\* ------------------------------------------------------------------------
\* the where clause without the test of scheduled_at
EligibleAtAnyTime ==
    {id \in TaskIds :
        \/ tasks[id].status = "PENDING"
        \/ tasks[id].status = "RUNNING" /\ tasks[id].started_at = NoneInt}

\* the WHERE clause of _fetch_next_task
Eligible ==
    {id \in TaskIds :
        /\ \/ tasks[id].status = "PENDING"
           \/ tasks[id].status = "RUNNING" /\ tasks[id].started_at = NoneInt
        /\ \/ tasks[id].scheduled_at = NoneInt
           \/ tasks[id].scheduled_at <= now}

\* a comes before b in ORDER BY priority DESC, created_at ASC
OrderedBefore(a, b) ==
    \/ PriorityRank(a.priority) > PriorityRank(b.priority)
    \/ /\ a.priority = b.priority
       /\ a.created_at < b.created_at

\* the rows _fetch_next_task may return: LIMIT 1 of the ordered rows; rows that tie
\* on both sort keys come in an order the database chooses
_fetch_next_task == {id \in Eligible : \A other \in Eligible : ~OrderedBefore(tasks[other], tasks[id])}

\* run, top of the loop with a task found: the session loads the row
RunnerSelect ==
    /\ runner.pc = "select"
    /\ ~service.stop_event
    /\ Eligible # {}
    /\ \E id \in _fetch_next_task :
          runner' = [pc |-> "process", tid |-> id, obj |-> tasks[id], base |-> tasks[id],
                     metadata |-> Null, i |-> 0, logged |-> FALSE]
    /\ response' = NoResponse
    /\ UNCHANGED <<tasks, now, calls, policy, service, peer>>

\* run, top of the loop with no task found: sleep for the poll interval
RunnerIdle ==
    /\ runner.pc = "select"
    /\ ~service.stop_event
    /\ Eligible = {}
    /\ runner' = IdleRunner("sleep")
    /\ response' = NoResponse
    /\ UNCHANGED <<tasks, now, calls, policy, service, peer>>

\* the poll interval has passed
RunnerWake ==
    /\ runner.pc = "sleep"
    /\ runner' = IdleRunner("select")
    /\ response' = NoResponse
    /\ UNCHANGED <<tasks, now, calls, policy, service, peer>>

\* _fail_task that leaves exit_code alone
_fail_task_no_exit_code(task, message) ==
    [task EXCEPT !.status = "FAILED",
                 !.completed_at = now,
                 !.error = message,
                 !.duration = IF task.started_at # NoneInt
                              THEN now - task.started_at
                              ELSE task.duration]

\* _fail_task: the object after the assignments
_fail_task(task, message) ==
    [task EXCEPT !.status = "FAILED",
                 !.completed_at = now,
                 !.error = message,
                 !.exit_code = 1,
                 !.duration = IF task.started_at # NoneInt
                              THEN now - task.started_at
                              ELSE task.duration]

\* the runner commits obj and goes on at pc
Commit(obj, pc, metadata, i) ==
    /\ tasks' = [tasks EXCEPT ![runner.tid] = Flush(tasks[runner.tid], obj, runner.base)]
    /\ runner' = IF pc = "select"
                 THEN IdleRunner("select")
                 ELSE [pc |-> pc, tid |-> runner.tid, obj |-> obj, base |-> obj,
                       metadata |-> metadata, i |-> i, logged |-> FALSE]

\* an exception that ends the loop of run
PropagateStopsLoop ==
    /\ runner' = [IdleRunner("stopped") EXCEPT !.logged = TRUE]
    /\ UNCHANGED tasks

\* an exception leaves _process_task: the session is rolled back and closed, run logs
\* the error and sleeps
Propagate ==
    /\ runner' = [IdleRunner("sleep") EXCEPT !.logged = TRUE]
    /\ UNCHANGED tasks

\* (metadata.get("approval_policy") or "auto").lower() raises AttributeError
ApprovalRaises(metadata) ==
    LET approval == Get(metadata.m, "approval_policy")
    IN  Truthy(approval) /\ approval.k # "str"

\* the gate test that knows the policy auto_with_gates only
GatedAutoOnly(metadata) ==
    LET approval == Get(metadata.m, "approval_policy")
        approval_policy == IF Truthy(approval) THEN Lower(approval.s) ELSE AUTO
    IN  /\ approval_policy \in {AUTO_WITH_GATES}
        /\ Truthy(Get(metadata.m, "gates"))

\* approval_policy in ("manual", "auto_with_gates") and gates
Gated(metadata) ==
    LET approval == Get(metadata.m, "approval_policy")
        approval_policy == IF Truthy(approval) THEN Lower(approval.s) ELSE AUTO
    IN  /\ approval_policy \in {MANUAL, AUTO_WITH_GATES}
        /\ Truthy(Get(metadata.m, "gates"))

\* _process_task up to its first commit: validation, the gate, the start
_process_task ==
    LET task == runner.obj
        raw_metadata == IF Truthy(task.task_metadata) THEN task.task_metadata ELSE Map(EmptyDict)
        ensured == ensure_sandbox_metadata(task.command, raw_metadata)
        metadata == ensured.value
        assigned == [task EXCEPT !.task_metadata = metadata]
        waiting == [assigned EXCEPT !.status = "WAITING_CONFIRMATION"]
        started == [assigned EXCEPT !.status = "RUNNING",
                                    !.started_at = now,
                                    !.output = Append(task.output, "[runner] starting")]
    IN  /\ runner.pc = "process"
        /\ response' = NoResponse
        /\ UNCHANGED <<now, calls, policy, service, peer>>
        /\ IF ensured.exc = "SandboxError"
           THEN Commit(_fail_task(task, <<"Sandbox validation failed: ", ensured.msg>>),
                       "select", Null, 0)
           ELSE IF ensured.exc # "none" \/ ApprovalRaises(metadata)
           THEN Propagate
           ELSE IF Gated(metadata)
           THEN Commit(waiting, "select", Null, 0)
           ELSE Commit(started,
                       IF should_use_sandbox(metadata, task.command) THEN "started" ELSE "execute",
                       metadata, 0)

\* _submit_to_sandbox and its call in _process_task
_submit_to_sandbox ==
    LET task == runner.obj
        metadata == runner.metadata
        submission == build_submission(task.command, metadata)
        runtime == Get(metadata.m, "runtime")
        runtime_metadata == Put(IF Truthy(runtime) THEN runtime.m ELSE EmptyDict,
                                "sandbox_submission", submission.value)
        new_metadata == Map(Put(metadata.m, "runtime", Map(runtime_metadata)))
        submitted == [task EXCEPT !.task_metadata = new_metadata,
                                  !.output = Append(task.output, "[runner] submitted to sandbox")]
    IN  /\ runner.pc = "started"
        /\ response' = NoResponse
        /\ UNCHANGED <<now, calls, policy, service, peer>>
        /\ IF submission.exc = "SandboxError"
           THEN Commit(_fail_task(task, <<"Sandbox submission failed: ", submission.msg>>),
                       "select", Null, 0)
           ELSE IF submission.exc # "none" \/ (Truthy(runtime) /\ ~IsMapping(runtime))
           THEN Propagate
           ELSE Commit(submitted, "execute", new_metadata, 0)

\* f"chunk {i}/5 done"
ChunkLine == <<"chunk 1/5 done", "chunk 2/5 done", "chunk 3/5 done", "chunk 4/5 done",
               "chunk 5/5 done">>

\* range(1, 6) has five chunks
Chunks == 5

\* a pass of the chunk loop that keeps the increment in the session without a commit
RunnerChunkUncommitted ==
    LET task == runner.obj
        i == runner.i + 1
        progressed == [task EXCEPT !.progress = i * 20,
                                   !.output = Append(task.output, ChunkLine[i])]
    IN  /\ runner.pc = "execute"
        /\ runner.i < Chunks
        /\ response' = NoResponse
        /\ UNCHANGED <<tasks, now, calls, policy, service, peer>>
        /\ runner' = [runner EXCEPT !.obj = progressed, !.i = i]

\* one pass of the chunk loop of _process_task
RunnerChunk ==
    LET task == runner.obj
        i == runner.i + 1
        progressed == [task EXCEPT !.progress = i * 20,
                                   !.output = Append(task.output, ChunkLine[i])]
    IN  /\ runner.pc = "execute"
        /\ runner.i < Chunks
        /\ response' = NoResponse
        /\ UNCHANGED <<now, calls, policy, service, peer>>
        /\ Commit(progressed, "execute", runner.metadata, i)

\* the end of _process_task after the last chunk
RunnerComplete ==
    LET task == runner.obj
        completed == [task EXCEPT !.status = "COMPLETED",
                                  !.completed_at = now,
                                  !.exit_code = 0,
                                  !.duration = IF task.started_at # NoneInt
                                               THEN now - task.started_at
                                               ELSE task.duration,
                                  !.output = Append(task.output, "[runner] completed successfully"),
                                  !.progress = 100]
    IN  /\ runner.pc = "execute"
        /\ runner.i = Chunks
        /\ response' = NoResponse
        /\ UNCHANGED <<now, calls, policy, service, peer>>
        /\ Commit(completed, "select", Null, 0)

\* an exception inside the try block of _process_task: except Exception -> _fail_task
RunnerExecuteError ==
    /\ runner.pc = "execute"
    /\ response' = NoResponse
    /\ UNCHANGED <<now, calls, policy, service, peer>>
    /\ Commit(_fail_task(runner.obj, <<"execution error">>), "select", Null, 0)

Next ==
    \/ Tick
    \/ CreateTask
    \/ UpdateTask
    \/ StartTask
    \/ CancelTask
    \/ ConfirmTask
    \/ RetryTask
    \/ RunnerSelect
    \/ RunnerIdle
    \/ RunnerWake
    \/ _process_task
    \/ _submit_to_sandbox
    \/ RunnerChunk
    \/ RunnerComplete
    \/ RunnerExecuteError

Spec == Init /\ [][Next]_vars

\* ------------------------------------------------------------------------
\* The scheduler's queue: several tasks, created and run, no other API call
\* ------------------------------------------------------------------------
NextQueue ==
    \/ Tick
    \/ CreateQueued
    \/ RunnerSelect
    \/ RunnerIdle
    \/ RunnerWake
    \/ _process_task
    \/ _submit_to_sandbox
    \/ RunnerChunk
    \/ RunnerComplete
    \/ RunnerExecuteError

SpecQueue == Init /\ [][NextQueue]_vars

\* ------------------------------------------------------------------------
\* The polling loop under a fair scheduler: tasks are created, updated and confirmed,
\* the storage may fail when the loop opens a session or fetches
\* ------------------------------------------------------------------------
\* run, top of the loop: get_db_session or _fetch_next_task raises
RunnerFetchError ==
    /\ runner.pc = "select"
    /\ ~service.stop_event
    /\ Propagate
    /\ response' = NoResponse
    /\ UNCHANGED <<now, calls, policy, service, peer>>

NextLoop ==
    \/ Tick
    \/ CreateTask
    \/ UpdateTask
    \/ ConfirmTask
    \/ RunnerSelect
    \/ RunnerFetchError
    \/ RunnerIdle
    \/ RunnerWake
    \/ _process_task
    \/ _submit_to_sandbox
    \/ RunnerChunk
    \/ RunnerComplete
    \/ RunnerExecuteError

\* the event loop keeps running the coroutine of run: a step of the loop that can be
\* taken is taken, and the storage does not fail at every fetch; a pass does not stay in
\* _process_task before its first commit or in _submit_to_sandbox for ever (these two
\* steps can always be taken, so this is their weak fairness)
LoopFairness ==
    /\ WF_vars(RunnerSelect \/ RunnerIdle \/ RunnerWake \/ RunnerChunk \/ RunnerComplete)
    /\ SF_vars(RunnerSelect)
    /\ []<>(runner.pc \notin {"process", "started"})

SpecLoop == Init /\ [][NextLoop]_vars /\ LoopFairness

\* the API calls of the owners and the loop of the scheduler, the loop being kept running
\* by the event loop
SpecFair == Init /\ [][Next]_vars /\ LoopFairness

\* ------------------------------------------------------------------------
\* The lifecycle of a TaskRunner: start and stop are called in any order while tasks
\* are created and the loop runs
\* ------------------------------------------------------------------------
\* TaskRunner.__init__: the event is clear, _task is None, no coroutine of run exists
InitService ==
    /\ tasks = <<>>
    /\ now = 0
    /\ runner = IdleRunner("off")
    /\ response = NoResponse
    /\ calls = 0
    /\ policy = NoPolicy
    /\ service = [stop_event |-> FALSE, created |-> FALSE, loops |-> 0, last |-> "none"]
    /\ peer = IdleRunner("off")

\* a start that creates a task for run whatever _task is
start_unconditional ==
    /\ service.loops < 2
    /\ service' = [stop_event |-> FALSE, created |-> TRUE, loops |-> service.loops + 1,
                   last |-> "start"]
    /\ runner' = IdleRunner("select")
    /\ response' = NoResponse
    /\ UNCHANGED <<tasks, now, calls, policy, peer>>

\* start(): when _task is None or done, clear the event and create a task for run;
\* otherwise nothing
start ==
    /\ IF ~service.created \/ runner.pc = "done"
       THEN /\ service' = [stop_event |-> FALSE, created |-> TRUE,
                           loops |-> service.loops + 1, last |-> "start"]
            /\ runner' = IdleRunner("select")
       ELSE /\ service' = [service EXCEPT !.last = "start"]
            /\ UNCHANGED runner
    /\ response' = NoResponse
    /\ UNCHANGED <<tasks, now, calls, policy, peer>>

\* stop(): set the event; the wait of at most five seconds for _task changes nothing
stop ==
    /\ service' = [service EXCEPT !.stop_event = TRUE, !.last = "stop"]
    /\ response' = NoResponse
    /\ UNCHANGED <<tasks, now, runner, calls, policy, peer>>

\* run, top of the loop with the event set: the loop ends and the task of run is done
RunnerExit ==
    /\ runner.pc = "select"
    /\ service.stop_event
    /\ runner' = IdleRunner("done")
    /\ service' = [service EXCEPT !.loops = @ - 1]
    /\ response' = NoResponse
    /\ UNCHANGED <<tasks, now, calls, policy, peer>>

NextService ==
    \/ start
    \/ stop
    \/ RunnerExit
    \/ Tick
    \/ CreateTask
    \/ RunnerSelect
    \/ RunnerIdle
    \/ RunnerWake
    \/ _process_task
    \/ _submit_to_sandbox
    \/ RunnerChunk
    \/ RunnerComplete
    \/ RunnerExecuteError

\* the event loop keeps running the coroutine of run, also its last step
SpecService == InitService /\ [][NextService]_vars /\ LoopFairness /\ WF_vars(RunnerExit)

\* ------------------------------------------------------------------------
\* Two TaskRunner instances poll the same tasks table
\* ------------------------------------------------------------------------
\* both instances were started and are at the top of their loops
InitPeers ==
    /\ tasks = <<>>
    /\ now = 0
    /\ runner = IdleRunner("select")
    /\ response = NoResponse
    /\ calls = 0
    /\ policy = NoPolicy
    /\ service = [stop_event |-> FALSE, created |-> TRUE, loops |-> 1, last |-> "start"]
    /\ peer = IdleRunner("select")

\* the other instance takes the next steps: runner is the instance that steps, peer the
\* one that waits, and both run the same code
Switch ==
    /\ peer.pc # "off"
    /\ runner' = peer
    /\ peer' = runner
    /\ response' = NoResponse
    /\ UNCHANGED <<tasks, now, calls, policy, service>>

NextPeers ==
    \/ Switch
    \/ Tick
    \/ CreateTask
    \/ RunnerSelect
    \/ RunnerIdle
    \/ RunnerWake
    \/ _process_task
    \/ _submit_to_sandbox
    \/ RunnerChunk
    \/ RunnerComplete
    \/ RunnerExecuteError

SpecPeers == InitPeers /\ [][NextPeers]_vars

\* ------------------------------------------------------------------------
\* The strict command validator and the runtime policy (core/sandbox.py)
\* ------------------------------------------------------------------------
\* DEFAULT_ALLOWED_ROOT_CMDS, which _get_allowed_roots returns when the settings
\* carry no SANDBOX_ALLOWED_ROOT_CMDS
DEFAULT_ALLOWED_ROOT_CMDS == {CODEX, CLAUDE, GEMINI}

\* the regular-expression assertion \b after position j when s[j] is a word character
WordEndAt(s, j) == j = Len(s) \/ ~WordChar(s[j + 1])

\* SHELL_OPERATOR_PATTERNS[7]: a backtick, any characters, a backtick
PatternBacktickPair(s) ==
    \E i \in 1..Len(s) : \E j \in (i + 1)..Len(s) : s[i] = Backtick /\ s[j] = Backtick

\* SHELL_OPERATOR_PATTERNS[8]: dollar, open parenthesis, any characters, a closing parenthesis
PatternDollarParen(s) ==
    \E i \in 1..Len(s) : \E j \in (i + 2)..Len(s) :
        s[i] = "$" /\ s[i + 1] = "(" /\ s[j] = ")"

\* SHELL_OPERATOR_PATTERNS[0..6]: the operators that are plain substrings; one or two
\* greater-than signs are found exactly when one is
SHELL_OPERATOR_PATTERNS ==
    {<<"&", "&">>, <<"|", "|">>, <<";">>, <<"|">>, <<">">>, <<"<">>, <<"2", ">", "&", "1">>}

\* has_shell_operators(command)
has_shell_operators(command) ==
    \/ \E p \in SHELL_OPERATOR_PATTERNS : Contains(command, p)
    \/ PatternBacktickPair(command)
    \/ PatternDollarParen(command)

\* a pattern \bw\b: the word w with a word boundary on both sides
MatchesWord(s, w) ==
    \E i \in 1..(Len(s) - Len(w) + 1) :
        /\ SubSeq(s, i, i + Len(w) - 1) = w
        /\ WordStartAt(s, i)
        /\ WordEndAt(s, i + Len(w) - 1)

\* a pattern \bw\s+tail, closed by \b when bounded: the word w after a word boundary,
\* one or more blanks, the characters of tail
MatchesGap(s, w, tail, bounded) ==
    \E i \in 1..(Len(s) - Len(w) + 1) : \E j \in (i + Len(w))..(Len(s) - Len(tail)) :
        /\ SubSeq(s, i, i + Len(w) - 1) = w
        /\ WordStartAt(s, i)
        /\ \A n \in (i + Len(w))..j : s[n] \in Whitespace
        /\ SubSeq(s, j + 1, j + Len(tail)) = tail
        /\ bounded => WordEndAt(s, j + Len(tail))

\* the pattern curl[\s\S]*\|[\s\S]*sh\b
MatchesCurlPipe(s) ==
    \E i \in 1..Len(s) : \E j \in (i + 4)..Len(s) : \E n \in (j + 1)..(Len(s) - 1) :
        /\ SubSeq(s, i, i + 3) = <<"c", "u", "r", "l">>
        /\ s[j] = "|"
        /\ s[n] = "s" /\ s[n + 1] = "h"
        /\ WordEndAt(s, n + 1)

\* DENYLIST_PATTERNS, in tuple order: shown is the pattern text that the reason prints;
\* words are the alternatives of a \bw\b pattern, (word, tail, bounded) the parts of a
\* \bw\s+tail pattern
DENYLIST_PATTERNS == <<
    [kind |-> "word", shown |-> "\\bsudo\\b", words |-> {<<"s", "u", "d", "o">>}],
    [kind |-> "word", shown |-> "\\bsu\\b", words |-> {<<"s", "u">>}],
    [kind |-> "gap", shown |-> "\\bchmod\\s+777\\b", word |-> <<"c", "h", "m", "o", "d">>,
     tail |-> <<"7", "7", "7">>, bounded |-> TRUE],
    [kind |-> "gap", shown |-> "\\brm\\s+-rf\\b", word |-> <<"r", "m">>,
     tail |-> <<"-", "r", "f">>, bounded |-> TRUE],
    [kind |-> "gap", shown |-> "\\bdd\\s+if=", word |-> <<"d", "d">>,
     tail |-> <<"i", "f", "=">>, bounded |-> FALSE],
    [kind |-> "word", shown |-> "\\bmkfs\\b", words |-> {<<"m", "k", "f", "s">>}],
    [kind |-> "word", shown |-> "\\bfdisk\\b", words |-> {<<"f", "d", "i", "s", "k">>}],
    [kind |-> "word", shown |-> "\\bmount\\b|\\bumount\\b",
     words |-> {<<"m", "o", "u", "n", "t">>, <<"u", "m", "o", "u", "n", "t">>}],
    [kind |-> "word", shown |-> "\\bchown\\b", words |-> {<<"c", "h", "o", "w", "n">>}],
    [kind |-> "gap", shown |-> "\\bkill\\s+-9\\b", word |-> <<"k", "i", "l", "l">>,
     tail |-> <<"-", "9">>, bounded |-> TRUE],
    [kind |-> "word", shown |-> "\\bshutdown\\b|\\breboot\\b",
     words |-> {<<"s", "h", "u", "t", "d", "o", "w", "n">>, <<"r", "e", "b", "o", "o", "t">>}],
    [kind |-> "word", shown |-> "\\bscp\\b|\\bssh\\b",
     words |-> {<<"s", "c", "p">>, <<"s", "s", "h">>}],
    [kind |-> "pipe", shown |-> "curl[\\s\\S]*\\|[\\s\\S]*sh\\b"],
    [kind |-> "word", shown |-> "\\bdocker\\b|\\bkubectl\\b",
     words |-> {<<"d", "o", "c", "k", "e", "r">>, <<"k", "u", "b", "e", "c", "t", "l">>}]
>>

\* re.search(p, command, flags=re.IGNORECASE) finds a match; the patterns are in
\* lower case, so the search runs on the lowered command
DenyMatches(p, command) ==
    LET s == Lower(command)
    IN  CASE p.kind = "word" -> \E w \in p.words : MatchesWord(s, w)
          [] p.kind = "gap" -> MatchesGap(s, p.word, p.tail, p.bounded)
          [] p.kind = "pipe" -> MatchesCurlPipe(s)

\* matches_denylist(command): the index of the first pattern found, 0 for None
matches_denylist(command) ==
    LET hits == {n \in DOMAIN DENYLIST_PATTERNS : DenyMatches(DENYLIST_PATTERNS[n], command)}
    IN  IF hits = {} THEN 0 ELSE Min(hits)

\* str.split(): the blank-separated tokens of a stripped string
RECURSIVE Split(_)
Split(s) ==
    LET st == Strip(s)
    IN  IF st = <<>> THEN <<>>
        ELSE <<FirstToken(st)>> \o Split(SubSeq(st, Len(FirstToken(st)) + 1, Len(st)))

\* re.match(r"^[A-Za-z_][A-Za-z0-9_]*=", token): an environment assignment
EnvAssignment(token) ==
    /\ token # <<>>
    /\ token[1] \in Range(UpperChars) \cup Range(LowerChars) \cup {"_"}
    /\ \E j \in 2..Len(token) :
          /\ token[j] = "="
          /\ \A n \in 2..(j - 1) : WordChar(token[n])

\* extract_root(command): the first token that is not an environment assignment, "" when
\* there is none
extract_root(command) ==
    LET parts == Split(command)
        rest == {i \in DOMAIN parts : ~EnvAssignment(parts[i])}
    IN  IF rest = {} THEN <<>> ELSE parts[Min(rest)]

\* the characters of a Python string as one string, for messages
RECURSIVE Join(_)
Join(s) == IF s = <<>> THEN "" ELSE s[1] \o Join(Tail(s))

\* a reason string (None is Null)
Reason(text) == [k |-> "text", t |-> text]

\* is_command_allowed(command): the pair (allowed, reason)
is_command_allowed(command) ==
    LET cmd == Strip(command)
        m == matches_denylist(cmd)
        root == Lower(extract_root(cmd))
    IN  IF cmd = <<>>
        THEN [allowed |-> FALSE, reason |-> Reason("empty command")]
        ELSE IF has_shell_operators(cmd)
        THEN [allowed |-> FALSE,
              reason |-> Reason("shell operators (chaining/redirection) are not allowed")]
        ELSE IF m # 0
        THEN [allowed |-> FALSE,
              reason |-> Reason("command contains denied pattern: " \o DENYLIST_PATTERNS[m].shown)]
        ELSE IF root \notin {Lower(c) : c \in DEFAULT_ALLOWED_ROOT_CMDS}
        THEN [allowed |-> FALSE,
              reason |-> Reason("root command '" \o Join(root) \o "' is not allowed")]
        ELSE [allowed |-> TRUE, reason |-> Null]

\* reason or "blocked by sandbox"
ReasonOrDefault(reason) ==
    IF reason.k = "text" /\ reason.t # "" THEN reason ELSE Reason("blocked by sandbox")

\* evaluate_runtime_policy(command, metadata): Returned of the pair (decision, reason), or
\* the exception raised.  enforced is getattr(settings, "SANDBOX_ENFORCED", True) and
\* approvals_enabled is getattr(settings, "APPROVALS_ENABLED", True)
evaluate_runtime_policy(command, metadata, enforced, approvals_enabled) ==
    LET metadata_in == IF Truthy(metadata) THEN metadata ELSE Map(EmptyDict)
        sandbox == IF IsMapping(metadata_in) /\ "sandbox" \in DOMAIN metadata_in.m
                   THEN metadata_in.m["sandbox"]
                   ELSE Map(EmptyDict)
        sandbox_mode == IF IsMapping(sandbox) /\ "mode" \in DOMAIN sandbox.m
                        THEN Lower(PyStr(sandbox.m["mode"]))
                        ELSE <<"s", "t", "r", "i", "c", "t">>
        approval == IF IsMapping(metadata_in) /\ "approval_policy" \in DOMAIN metadata_in.m
                    THEN Lower(PyStr(metadata_in.m["approval_policy"]))
                    ELSE AUTO
        checked == is_command_allowed(command)
    IN  IF ~IsMapping(metadata_in) \/ ~IsMapping(sandbox)
        THEN Raised("AttributeError", "object has no attribute 'get'")
        ELSE IF checked.allowed
        THEN Returned([decision |-> "allow", reason |-> Null])
        ELSE IF ~approvals_enabled
        THEN Returned([decision |-> "block", reason |-> ReasonOrDefault(checked.reason)])
        ELSE IF enforced \/ sandbox_mode = <<"s", "t", "r", "i", "c", "t">>
        THEN IF approval \in {MANUAL, AUTO_WITH_GATES}
             THEN Returned([decision |-> "gate", reason |-> ReasonOrDefault(checked.reason)])
             ELSE Returned([decision |-> "block", reason |-> ReasonOrDefault(checked.reason)])
        ELSE Returned([decision |-> "allow", reason |-> Null])

\* ------------------------------------------------------------------------
\* Direct calls of the SandboxManager methods and of the core/sandbox.py functions
\* on chosen arguments
\* ------------------------------------------------------------------------
CmdTabs == <<"\t", "\n">>

\* the commands of the direct calls: accepted ones, blank ones, chained ones, ones that
\* hold a fragment of _DANGEROUS_SUBSTRINGS after an allowed root command, a redirection,
\* an environment assignment, denied command names, a backtick substitution
PolicyCommands ==
    {CmdCodexLint, CmdNpmTest, CmdClaudePlan, CmdChained, CmdBlank, <<>>,
     <<"c", "o", "d", "e", "x", " ", "r", "u", "n", " ", "&", "&", " ", "r", "m", " ", "-", "r", "f", " ", "/">>,
     <<"c", "l", "a", "u", "d", "e", " ", "a", "s", "k", " ", "$", "(", "i", "d", ")">>,
     <<"g", "e", "m", "i", "n", "i", " ", "r", "u", "n">>,
     <<"c", "o", "d", "e", "x", " ", "w", "g", "e", "t", " ", "h", "t", "t", "p", ":", "/", "/", "x">>,
     <<"c", "o", "d", "e", "x", " ", "c", "u", "r", "l", " ", "h", "t", "t", "p", ":", "/", "/", "x">>,
     <<"c", "o", "d", "e", "x", " ", "s", "y", "n", "c", " ", "n", "o", "w">>,
     <<"c", "o", "d", "e", "x", " ", "o", "p", "e", "n", "s", "s", "h", " ", "x">>,
     <<"c", "l", "a", "u", "d", "e", " ", "v", "i", "s", "u", "d", "o">>,
     <<"c", "o", "d", "e", "x", " ", "f", "a", "r", "m", " ", "-", "r", "f", " ", "x">>,
     <<"s", "u", "d", "o", " ", "r", "m", " ", "-", "r", "f", " ", "/">>,
     <<"c", "o", "d", "e", "x", " ", "r", "u", "n", " ", ">", " ", "o", "u", "t">>,
     <<"F", "O", "O", "=", "1", " ", "c", "o", "d", "e", "x", " ", "l", "i", "n", "t">>,
     <<"c", "o", "d", "e", "x", " ", "s", "s", "h", " ", "h", "o", "s", "t">>,
     <<"c", "o", "d", "e", "x", " ", "a", " ", "|", "|", " ", "b">>,
     <<"d", "o", "c", "k", "e", "r", " ", "p", "s">>,
     <<"c", "o", "d", "e", "x", " ", "grave", "i", "d", "grave">>,
     CmdTabs}

PERMISSIVE == <<"p", "e", "r", "m", "i", "s", "s", "i", "v", "e">>

CAP_X == <<"C", "A", "P", "_", "X">>

\* the metadata of the calls, among them values that set the sandbox mode and the
\* approval policy and values that override the capabilities of the profile
PolicyMetadata ==
    {Null, MdEmpty, MdCodex, MdGemini, MdDisabled, MdEnabledZero, MdGated, MdClaudeOverrides,
     MdSandboxString,
     Map([agent |-> Str(CLAUDE), sandbox |-> Map([enabled |-> Null])]),
     Map([agent |-> Str(CODEX), sandbox |-> Map([enabled |-> Bool(TRUE)])]),
     Map([agent |-> Str(CODEX), sandbox |-> Map([limits |-> Map([enabled |-> Bool(FALSE)])])]),
     Map([agent |-> Str(GEMINI), sandbox |-> Map([enabled |-> Bool(FALSE)])]),
     Map([agent |-> Str(<<" ", "C", "o", "d", "e", "x", " ">>)]),
     Map([agent |-> Str(<<" ", " ">>)]),
     Map([agent |-> Str(<<>>)]),
     Map([agent |-> Str(GEMINI),
          sandbox |-> Map([enabled |-> Bool(TRUE), limits |-> Map([cpu |-> Float10(5)])])])}
    \cup
    {Map([sandbox |-> Map(EmptyDict)]),
     Map([sandbox |-> Map([mode |-> Str(PERMISSIVE)])]),
     Map([sandbox |-> Map([mode |-> Str(<<"S", "T", "R", "I", "C", "T">>)])]),
     Map([sandbox |-> Map([mode |-> Null])]),
     Map([sandbox |-> Null]),
     Map([sandbox |-> List(<<>>)]),
     Map([approval_policy |-> Str(<<"M", "A", "N", "U", "A", "L">>),
          sandbox |-> Map([mode |-> Str(PERMISSIVE)])]),
     Map([approval_policy |-> Str(<<"A", "u", "t", "o", "_", "W", "i", "t", "h", "_", "G", "a", "t", "e", "s">>)]),
     Map([approval_policy |-> Str(AUTO)]),
     Map([approval_policy |-> Null]),
     Map([approval_policy |-> Str(MANUAL), sandbox |-> Null])}
    \cup
    {Map([agent |-> Str(CODEX),
          sandbox |-> Map([capabilities |-> List(<<Str(CAP_X), Str(CAP_CHOWN), Str(CAP_X)>>)])]),
     Map([agent |-> Str(CODEX), sandbox |-> Map([capabilities |-> Str(CAP_X)])]),
     Map([agent |-> Str(CLAUDE), sandbox |-> Map([capabilities |-> List(<<>>)])]),
     Map([agent |-> Str(CODEX), sandbox |-> Map([capabilities |-> Null])]),
     Map([agent |-> Str(GEMINI),
          sandbox |-> Map([capabilities |-> List(<<Str(<<"b">>), Str(<<"a">>), Str(<<"b">>)>>)])]),
     Map([agent |-> Str(CODEX),
          sandbox |-> Map([extra |-> Map([capabilities |-> List(<<Str(<<"b">>), Str(<<"a">>)>>)])])]),
     Map([agent |-> Str(CODEX),
          sandbox |-> Map([extra |-> Map([enabled |-> Bool(FALSE)])])])}

\* the arguments of the calls: nothing has been called yet
PolicyCall(c, m) ==
    [pc |-> "call", command |-> c, metadata |-> m, result |-> Pending,
     caller |-> m, ref |-> "none",
     allowed |-> [allowed |-> FALSE, reason |-> Null],
     enforced |-> TRUE, approvals_enabled |-> TRUE, decision |-> Pending,
     once |-> Pending, twice |-> Pending, again |-> Pending,
     second |-> Null, ab |-> Pending, ba |-> Pending,
     uses |-> FALSE, submission |-> Pending]

InitPolicy ==
    /\ InitStore
    /\ policy \in {PolicyCall(c, m) : c \in PolicyCommands, m \in PolicyMetadata}

\* the effective agent of a call and the profile that _merge_metadata is given
PolicyAgent ==
    _normalise_agent(IF Truthy(policy.metadata) THEN Get(policy.metadata.m, "agent") ELSE Null,
                     policy.command)

PolicyProfile == IF IsSupported(PolicyAgent) THEN ProfileOf(PolicyAgent.s) ELSE NoProfile

PolicyOverrides == IF Truthy(policy.metadata) THEN Get(policy.metadata.m, "sandbox") ELSE Null

\* ensure_sandbox_metadata(command, metadata) is called
PolicyEnsure ==
    /\ policy.pc = "call"
    /\ LET result == ensure_sandbox_metadata(policy.command, policy.metadata)
       IN  policy' = [policy EXCEPT
               !.pc = "ensured",
               !.result = result,
               !.caller = CallerMetadataAfter(policy.command, policy.metadata),
               !.ref = IF result.exc = "none" THEN MetadataCopy(policy.metadata) ELSE "none"]
    /\ UNCHANGED <<tasks, now, runner, response, calls, service, peer>>

\* is_command_allowed(command) is called
PolicyClassify ==
    /\ policy.pc = "ensured"
    /\ policy' = [policy EXCEPT !.pc = "classified",
                                !.allowed = is_command_allowed(policy.command)]
    /\ UNCHANGED <<tasks, now, runner, response, calls, service, peer>>

\* evaluate_runtime_policy(command, metadata) is called under some settings
PolicyEvaluate ==
    /\ policy.pc = "classified"
    /\ \E enforced \in BOOLEAN, approvals_enabled \in BOOLEAN :
          policy' = [policy EXCEPT
              !.pc = "evaluated",
              !.enforced = enforced,
              !.approvals_enabled = approvals_enabled,
              !.decision = evaluate_runtime_policy(policy.command, policy.metadata,
                                                   enforced, approvals_enabled)]
    /\ UNCHANGED <<tasks, now, runner, response, calls, service, peer>>

\* _merge_metadata(profile, overrides) is called, and the overrides are merged a second
\* time into what it returned
PolicyMerge ==
    /\ policy.pc = "evaluated"
    /\ LET once == _merge_metadata(PolicyProfile, PolicyOverrides)
       IN  policy' = [policy EXCEPT
               !.pc = "merged",
               !.once = once,
               !.twice = IF once.exc = "none"
                         THEN _recursive_merge(once.value.m, PolicyOverrides)
                         ELSE once]
    /\ UNCHANGED <<tasks, now, runner, response, calls, service, peer>>

\* ensure_sandbox_metadata is called on the metadata that it returned
PolicyEnsureAgain ==
    /\ policy.pc = "merged"
    /\ policy' = [policy EXCEPT
           !.pc = "again",
           !.again = IF policy.result.exc = "none"
                     THEN ensure_sandbox_metadata(policy.command, policy.result.value)
                     ELSE policy.result]
    /\ UNCHANGED <<tasks, now, runner, response, calls, service, peer>>

\* two overrides are merged into the profile one after the other, in both orders: the
\* overrides of the call and a second capabilities override
PolicyMergePair ==
    /\ policy.pc = "again"
    /\ \E second \in {Map([capabilities |-> List(<<Str(CAP_X), Str(<<"C", "A", "P", "_", "Y">>), Str(CAP_X)>>)]),
                       Map([capabilities |-> Str(CAP_SETUID)]),
                       Map([capabilities |-> Null])} :
          LET first == _merge_metadata(PolicyProfile, PolicyOverrides)
              other == _merge_metadata(PolicyProfile, second)
          IN  policy' = [policy EXCEPT
                  !.pc = "paired",
                  !.second = second,
                  !.ab = IF first.exc = "none"
                         THEN _recursive_merge(first.value.m, second)
                         ELSE first,
                  !.ba = IF other.exc = "none" /\ Truthy(PolicyOverrides)
                         THEN _recursive_merge(other.value.m, PolicyOverrides)
                         ELSE other]
    /\ UNCHANGED <<tasks, now, runner, response, calls, service, peer>>

\* should_use_sandbox(metadata, command) and build_submission(command, metadata) are called
PolicySubmit ==
    /\ policy.pc = "paired"
    /\ policy' = [policy EXCEPT
           !.pc = "submitted",
           !.uses = should_use_sandbox(policy.metadata, policy.command),
           !.submission = build_submission(policy.command, policy.metadata)]
    /\ UNCHANGED <<tasks, now, runner, response, calls, service, peer>>

NextPolicy ==
    \/ PolicyEnsure
    \/ PolicyClassify
    \/ PolicyEvaluate
    \/ PolicyMerge
    \/ PolicyEnsureAgain
    \/ PolicyMergePair
    \/ PolicySubmit

SpecPolicy == InitPolicy /\ [][NextPolicy]_vars

\* ------------------------------------------------------------------------
\* Properties
\* ------------------------------------------------------------------------
\* the body of a metadata value ({} when it is not a dict)
Body(metadata) == IF IsMapping(metadata) THEN metadata.m ELSE EmptyDict

\* the agent that a command and a metadata value resolve to
EffectiveAgent(command, metadata) == _normalise_agent(Get(Body(metadata), "agent"), command)

\* metadata["sandbox"]["enabled"] == True
SandboxEnabled(metadata) ==
    LET sandbox == Get(Body(metadata), "sandbox")
    IN  IsMapping(sandbox) /\ EqualsTrue(Get(sandbox.m, "enabled"))

\* metadata["runtime"]["sandbox_submission"] is there
HasSubmission(metadata) ==
    LET runtime == Get(Body(metadata), "runtime")
    IN  IsMapping(runtime) /\ "sandbox_submission" \in DOMAIN runtime.m

\* the runner takes a step of the pass over the task it holds
RunnerStep == runner.tid # 0 /\ runner' # runner

\* C1: for every command that passes validation and every metadata whose effective
\* agent is codex or claude, ensure_sandbox_metadata raises SandboxError or returns
\* metadata whose sandbox.enabled equals true
C1_EnabledTrueOrSandboxError ==
    (/\ policy.pc = "ensured"
     /\ _validate_command(policy.command).exc = "none"
     /\ IsSupported(EffectiveAgent(policy.command, policy.metadata)))
    => \/ policy.result.exc = "SandboxError"
       \/ /\ policy.result.exc = "none"
          /\ SandboxEnabled(policy.result.value)

\* C2: every stored task whose effective agent is codex or claude has
\* task_metadata.sandbox.enabled equal to true, after any sequence of API calls and
\* scheduler steps
C2_StoredSandboxEnabled ==
    \A id \in TaskIds :
        IsSupported(EffectiveAgent(tasks[id].command, tasks[id].task_metadata))
        => SandboxEnabled(tasks[id].task_metadata)

UserActions == {"start", "cancel", "confirm", "retry"}

\* the status an accepted user action writes
ActionTarget(action) ==
    CASE action = "start" -> "RUNNING"
      [] action = "cancel" -> "CANCELLED"
      [] action = "confirm" -> "RUNNING"
      [] action = "retry" -> "PENDING"

\* the transition table as the specification states it
StatedSources(action) ==
    CASE action = "start" -> {"PENDING"}
      [] action = "cancel" -> {"PENDING", "RUNNING"}
      [] action = "confirm" -> {"WAITING_CONFIRMATION"}
      [] action = "retry" -> {"FAILED", "CANCELLED"}

\* the transition table with the start of a failed task
StartableSources(action) ==
    CASE action = "start" -> {"PENDING", "FAILED"}
      [] action = "cancel" -> {"PENDING", "RUNNING"}
      [] action = "confirm" -> {"WAITING_CONFIRMATION"}
      [] action = "retry" -> {"FAILED", "CANCELLED"}

\* a user action follows the table Sources: accepted from a source of the table and
\* then written as the edge to the target of the action, refused from any other status
\* and then nothing in the store changes; no other row is touched
FollowsTable(Sources(_)) ==
    response'.op \in UserActions =>
        LET id == response'.id
        IN  /\ IF response'.code = 200
               THEN /\ tasks[id].status \in Sources(response'.op)
                    /\ tasks'[id].status = ActionTarget(response'.op)
               ELSE /\ tasks[id].status \notin Sources(response'.op)
                    /\ tasks' = tasks
            /\ \A other \in TaskIds \ {id} : tasks'[other] = tasks[other]

SchedulerEdges == {<<"PENDING", "RUNNING">>, <<"RUNNING", "COMPLETED">>, <<"RUNNING", "FAILED">>,
                   <<"RUNNING", "WAITING_CONFIRMATION">>}

\* C4: every status change that a commit of the scheduler makes to a stored task is
\* one of PENDING -> RUNNING, RUNNING -> COMPLETED, RUNNING -> FAILED,
\* RUNNING -> WAITING_CONFIRMATION, the source being the stored status before the commit
C4_SchedulerEdgesLegal ==
    [][\A id \in TaskIds :
          (RunnerStep /\ tasks'[id].status # tasks[id].status)
          => <<tasks[id].status, tasks'[id].status>> \in SchedulerEdges]_vars

\* the metadata the runner processes for a task
RawMetadata(task) == IF Truthy(task.task_metadata) THEN task.task_metadata ELSE Map(EmptyDict)

\* the augmented metadata of the task asks for approval and names gates
GateRequested(task) ==
    LET ensured == ensure_sandbox_metadata(task.command, RawMetadata(task))
        approval == Get(ensured.value.m, "approval_policy")
        gates == Get(ensured.value.m, "gates")
    IN  /\ ensured.exc = "none"
        /\ approval.k = "str"
        /\ approval.s \in {MANUAL, AUTO_WITH_GATES}
        /\ gates.k = "list"
        /\ gates.l # <<>>

\* C5: when the scheduler processes a task whose augmented metadata has the approval
\* policy manual or auto_with_gates and a non-empty gates list, the pass ends there with
\* the task WAITING_CONFIRMATION; started_at is not set and no start marker, progress
\* or submission payload is written
C5_GatePausesTask ==
    [][(RunnerStep /\ runner.pc = "process" /\ GateRequested(runner.obj))
       => LET before == tasks[runner.tid]
              after == tasks'[runner.tid]
          IN  /\ runner'.pc = "select"
              /\ after.status = "WAITING_CONFIRMATION"
              /\ runner.obj.started_at = NoneInt
              /\ after.started_at = before.started_at
              /\ after.output = before.output
              /\ after.progress = before.progress
              /\ ~HasSubmission(after.task_metadata)]_vars

\* C5 witness: a gated task was paused by the scheduler
C5_TaskWaiting ==
    \E id \in TaskIds :
        /\ tasks[id].status = "WAITING_CONFIRMATION"
        /\ GateRequested(tasks[id])
        /\ tasks[id].started_at = NoneInt
        /\ tasks[id].output = <<>>
        /\ runner.pc = "select"

\* C6: when the scheduler processes a task for which ensure_sandbox_metadata raises
\* SandboxError, the pass ends there with the task FAILED, exit_code 1 and an error
\* that starts with 'Sandbox validation failed'; started_at is not set and no progress
\* or output is written
C6_ValidationFailureFailsTask ==
    [][(/\ RunnerStep
        /\ runner.pc = "process"
        /\ ensure_sandbox_metadata(runner.obj.command, RawMetadata(runner.obj)).exc = "SandboxError")
       => LET before == tasks[runner.tid]
              after == tasks'[runner.tid]
          IN  /\ runner'.pc = "select"
              /\ after.status = "FAILED"
              /\ after.exit_code = 1
              /\ after.error # <<>>
              /\ after.error[1] = "Sandbox validation failed: "
              /\ runner.obj.started_at = NoneInt
              /\ after.started_at = before.started_at
              /\ after.progress = before.progress
              /\ after.output = before.output]_vars

\* C6 witness: the scheduler failed a codex task whose stored sandbox is disabled
C6_TaskFailedValidation ==
    \E id \in TaskIds :
        /\ tasks[id].status = "FAILED"
        /\ tasks[id].error = <<"Sandbox validation failed: ", MandatoryMessage>>
        /\ tasks[id].exit_code = 1
        /\ tasks[id].started_at = NoneInt
        /\ tasks[id].task_metadata = MdDisabled

\* the task has a command that passes validation, the effective agent codex or claude,
\* sandbox overrides that are accepted and no gates
PlainSandboxed(task) ==
    LET ensured == ensure_sandbox_metadata(task.command, RawMetadata(task))
    IN  /\ ensured.exc = "none"
        /\ IsSupported(EffectiveAgent(task.command, RawMetadata(task)))
        /\ ~Truthy(Get(ensured.value.m, "gates"))

\* task_metadata.sandbox carries the standard profile of the agent of the task
StandardProfile(task) ==
    LET sandbox == Get(Body(task.task_metadata), "sandbox")
        agent == EffectiveAgent(task.command, task.task_metadata)
    IN  /\ IsMapping(sandbox)
        /\ Get(sandbox.m, "profile").k = "str"
        /\ Get(sandbox.m, "profile").s = ProfileOf(agent.s).name

\* C7: a pass of the scheduler over a PENDING task with a valid command, the effective
\* agent codex or claude, accepted sandbox overrides and no gates starts the task, then
\* stores the submission payload, and, when no exception ends the pass and no API call
\* changes the row meanwhile, ends with the task COMPLETED, progress 100, exit_code 0,
\* the standard profile of the agent in task_metadata.sandbox and the payload under
\* task_metadata.runtime.sandbox_submission
C7_SandboxedTaskCompletes ==
    [][(RunnerStep /\ PlainSandboxed(runner.obj))
       => LET before == tasks[runner.tid]
              after == tasks'[runner.tid]
          IN  /\ runner.pc = "process" /\ runner.obj.status = "PENDING"
                 => /\ runner'.pc = "started"
                    /\ after.status = "RUNNING"
                    /\ StandardProfile(after)
              /\ runner.pc = "started"
                 => /\ runner'.pc = "execute"
                    /\ HasSubmission(after.task_metadata)
              /\ runner.pc = "execute"
                 => /\ HasSubmission(runner.obj.task_metadata)
                    /\ (before = runner.base /\ after.status # "FAILED" /\ runner.i = Chunks)
                       => /\ after.status = "COMPLETED"
                          /\ after.progress = 100
                          /\ after.exit_code = 0
                          /\ StandardProfile(after)
                          /\ HasSubmission(after.task_metadata)]_vars

\* C7 witness: the task 'codex lint', created with no agent, was run to completion
C7_CodexLintCompleted ==
    \E id \in TaskIds :
        /\ tasks[id].command = CmdCodexLint
        /\ tasks[id].status = "COMPLETED"
        /\ tasks[id].progress = 100
        /\ tasks[id].exit_code = 0
        /\ Get(tasks[id].task_metadata.m, "agent").s = CODEX
        /\ StandardProfile(tasks[id])
        /\ HasSubmission(tasks[id].task_metadata)

\* C8: whenever some task is eligible, _fetch_next_task can return one row only, and
\* that row has a higher priority than, or the priority of and an earlier created_at
\* than, every other eligible row
C8_SelectionDetermined ==
    Eligible # {} =>
        \E id \in Eligible :
            /\ _fetch_next_task = {id}
            /\ \A other \in Eligible \ {id} : OrderedBefore(tasks[id], tasks[other])

\* C9: after an accepted retry the task is PENDING and progress, output, error,
\* exit_code, duration, started_at and completed_at are all unset
C9_RetryClearsTelemetry ==
    (response.op = "retry" /\ response.code = 200)
    => LET task == tasks[response.id]
       IN  /\ task.status = "PENDING"
           /\ task.progress = NoneInt
           /\ task.output = <<>>
           /\ task.error = <<>>
           /\ task.exit_code = NoneInt
           /\ task.duration = NoneInt
           /\ task.started_at = NoneInt
           /\ task.completed_at = NoneInt

\* C10: a create_task whose command or sandbox configuration ensure_sandbox_metadata
\* rejects returns an error and leaves the store unchanged; an accepted create_task
\* adds one row, PENDING, whose task_metadata is the value ensure_sandbox_metadata
\* returned, and changes no other row
C10_CreateRejectsOrStoresAugmented ==
    [][response'.op = "create_task"
       => LET req == CreateRequests[response'.arg]
              outcome == ensure_sandbox_metadata(Strip(req.command), req.metadata)
          IN  IF outcome.exc # "none" \/ response'.code # 200
              THEN /\ response'.code \in {400, 422, 500}
                   /\ tasks' = tasks
              ELSE /\ Len(tasks') = Len(tasks) + 1
                   /\ SubSeq(tasks', 1, Len(tasks)) = tasks
                   /\ response'.id = Len(tasks')
                   /\ tasks'[Len(tasks')].status = "PENDING"
                   /\ tasks'[Len(tasks')].task_metadata = outcome.value]_vars

\* C10 witness: a create_task was refused for its sandbox configuration and the store
\* is empty
C10_CreateRefused ==
    /\ response.op = "create_task"
    /\ response.code = 400
    /\ CreateRequests[response.arg].metadata = MdDisabled
    /\ tasks = <<>>

\* the command contains a fragment of _DANGEROUS_SUBSTRINGS (in any case) or the
\* chaining operator ||
HasBaselineFragment(command) ==
    \/ \E n \in DOMAIN _DANGEROUS_SUBSTRINGS :
          Contains(Lower(command), _DANGEROUS_SUBSTRINGS[n].frag)
    \/ Contains(command, <<"|", "|">>)

\* C11: every command that contains a fragment of the baseline denylist or a chaining
\* operator is rejected by both validators: ensure_sandbox_metadata raises SandboxError
\* and is_command_allowed returns (False, reason), whatever the root command is
C11_BothValidatorsReject ==
    (policy.pc = "classified" /\ HasBaselineFragment(policy.command))
    => /\ policy.result.exc = "SandboxError"
       /\ ~policy.allowed.allowed
       /\ policy.allowed.reason.k = "text"

\* C12: a command that is empty or only whitespace fails in both check sets with a
\* non-empty reason: ensure_sandbox_metadata raises SandboxError with a non-empty
\* message (so it returns no metadata) and is_command_allowed returns (False, reason)
\* with a non-empty reason
C12_EmptyCommandFailsBoth ==
    (/\ policy.pc = "classified"
     /\ \A i \in DOMAIN policy.command : policy.command[i] \in Whitespace)
    => /\ policy.result.exc = "SandboxError"
       /\ policy.result.msg # ""
       /\ ~policy.allowed.allowed
       /\ policy.allowed.reason.k = "text"
       /\ policy.allowed.reason.t # ""

\* both validators were given a command of a tab and a newline, with metadata that names
\* an agent, and both refused it
C12_BlankCommandRejected ==
    /\ policy.pc = "classified"
    /\ policy.command = CmdTabs
    /\ policy.metadata = MdCodex
    /\ policy.result.exc = "SandboxError"
    /\ ~policy.allowed.allowed

\* the command of the call fails the strict validator
FailsStrictValidator == ~policy.allowed.allowed

\* the task's sandbox mode is "strict", which is also the mode when the metadata gives none
ModeIsStrict(metadata) ==
    LET sandbox == Get(Body(metadata), "sandbox")
    IN  IF IsMapping(sandbox) /\ "mode" \in DOMAIN sandbox.m
        THEN Lower(PyStr(sandbox.m["mode"])) = <<"s", "t", "r", "i", "c", "t">>
        ELSE TRUE

\* the task's approval_policy is "manual" or "auto_with_gates", in any case
ApprovalPolicyGates(metadata) ==
    /\ "approval_policy" \in DOMAIN Body(metadata)
    /\ Body(metadata)["approval_policy"].k = "str"
    /\ Lower(Body(metadata)["approval_policy"].s) \in {MANUAL, AUTO_WITH_GATES}

\* the call returned the decision d with a non-empty reason
DecidedWithReason(d) ==
    /\ policy.decision.exc = "none"
    /\ policy.decision.value.decision = d
    /\ policy.decision.value.reason.k = "text"
    /\ policy.decision.value.reason.t # ""

\* C13: when the command fails the strict validator and the approvals flag is disabled,
\* evaluate_runtime_policy decides "block" with a non-empty reason, for every metadata
\* value and enforcement flag
C13_BlockWhenApprovalsDisabled ==
    (/\ policy.pc = "evaluated"
     /\ FailsStrictValidator
     /\ ~policy.approvals_enabled)
    => DecidedWithReason("block")

\* C14: when the command fails the strict validator, approvals are enabled, and
\* enforcement is on or the sandbox mode is "strict" (the default), the decision is
\* "gate" if approval_policy is "manual" or "auto_with_gates" in any case, and "block"
\* otherwise
C14_GateIffApprovalPolicy ==
    (/\ policy.pc = "evaluated"
     /\ FailsStrictValidator
     /\ policy.approvals_enabled
     /\ policy.enforced \/ ModeIsStrict(policy.metadata))
    => /\ policy.decision.exc = "none"
       /\ policy.decision.value.decision =
             IF ApprovalPolicyGates(policy.metadata) THEN "gate" ELSE "block"

\* C15: the decision is "allow" with reason None exactly when the command passes the
\* strict validator, or fails it while approvals are enabled, enforcement is off and the
\* sandbox mode is not "strict"; in every other case it is "gate" or "block" with a
\* non-empty reason
C15_AllowExactlyInTwoCases ==
    policy.pc = "evaluated"
    => IF \/ ~FailsStrictValidator
          \/ /\ policy.approvals_enabled
             /\ ~policy.enforced
             /\ ~ModeIsStrict(policy.metadata)
       THEN /\ policy.decision.exc = "none"
            /\ policy.decision.value.decision = "allow"
            /\ policy.decision.value.reason.k = "null"
       ELSE DecidedWithReason("gate") \/ DecidedWithReason("block")

\* C16: evaluate_runtime_policy never raises: for every command and every metadata value
\* it returns a decision among allow, gate and block
C16_NeverRaises ==
    policy.pc = "evaluated"
    => /\ policy.decision.exc = "none"
       /\ policy.decision.value.decision \in {"allow", "gate", "block"}

OverrideCapabilities(value) ==
    CASE value.k = "list" -> {value.l[i].s : i \in DOMAIN value.l}
      [] value.k = "str" -> {value.s}
      [] value.k = "null" -> {}

\* the capabilities held by a merged sandbox mapping; none when the value is not a list
ResultCapabilities(merged) ==
    IF "capabilities" \in DOMAIN merged.m /\ merged.m["capabilities"].k = "list"
    THEN {merged.m["capabilities"].l[i].s : i \in DOMAIN merged.m["capabilities"].l}
    ELSE {}

\* the overrides of the call are a mapping with a capabilities value that is a list, a
\* string or null, and they are merged into the profile of a supported agent
CapabilitiesOverridden ==
    /\ IsSupported(PolicyAgent)
    /\ IsMapping(PolicyOverrides)
    /\ "capabilities" \in DOMAIN PolicyOverrides.m
    /\ PolicyOverrides.m["capabilities"].k \in {"list", "str", "null"}
    /\ policy.once.exc = "none"

\* C18: for a capabilities override that is a list, a single string, an empty list or
\* null, the merged capability set is the union of the profile's default capabilities
\* and the override's capabilities, so no default capability is replaced or removed
C18_CapabilitiesAreUnion ==
    (policy.pc = "merged" /\ CapabilitiesOverridden)
    => ResultCapabilities(policy.once.value) =
          PolicyProfile.capabilities \cup OverrideCapabilities(PolicyOverrides.m["capabilities"])

\* C19: whenever the metadata returned by ensure_sandbox_metadata contains
\* sandbox.capabilities, that value is a list of strings without duplicates in ascending
\* order
C19_CapabilitiesSortedList ==
    (/\ policy.pc = "ensured"
     /\ policy.result.exc = "none"
     /\ IsMapping(Get(policy.result.value.m, "sandbox"))
     /\ "capabilities" \in DOMAIN policy.result.value.m["sandbox"].m)
    => LET capabilities == policy.result.value.m["sandbox"].m["capabilities"]
       IN  /\ capabilities.k = "list"
           /\ \A i \in DOMAIN capabilities.l : capabilities.l[i].k = "str"
           /\ \A i \in DOMAIN capabilities.l : \A j \in DOMAIN capabilities.l :
                 i < j => StrLess(capabilities.l[i].s, capabilities.l[j].s)

\* C20: merge is idempotent: when the overrides are a mapping that merges into the
\* profile without error, merging them once more into the result returns the same
\* mapping, and ensure_sandbox_metadata applied to its own output with the same command
\* returns an equal mapping
C20_MergeIdempotent ==
    policy.pc = "again"
    => /\ (IsMapping(PolicyOverrides) /\ policy.once.exc = "none")
              => policy.twice = policy.once
       /\ policy.result.exc = "none" => policy.again = policy.result

\* the overrides of the call name the capabilities, like the second override
CapabilityOverridePair ==
    /\ policy.pc = "paired"
    /\ IsMapping(PolicyOverrides)
    /\ "capabilities" \in DOMAIN PolicyOverrides.m
    /\ PolicyOverrides.m["capabilities"].k \in {"list", "str", "null"}

\* C21: capability merge is commutative and deduplicating: for two capability overrides
\* A and B, merging A then B into a profile and merging B then A both return, with the
\* same capability list, in ascending order with each capability once, holding the
\* defaults and the capabilities of A and of B
C21_CapabilityMergeCommutes ==
    CapabilityOverridePair
    => /\ policy.ab.exc = "none"
       /\ policy.ba.exc = "none"
       /\ Get(policy.ab.value.m, "capabilities") = Get(policy.ba.value.m, "capabilities")
       /\ LET capabilities == Get(policy.ab.value.m, "capabilities")
          IN  /\ capabilities.k = "list"
              /\ \A i \in DOMAIN capabilities.l : \A j \in DOMAIN capabilities.l :
                    i < j => StrLess(capabilities.l[i].s, capabilities.l[j].s)
              /\ ResultCapabilities(policy.ab.value) =
                    (IF PolicyProfile = NoProfile THEN {} ELSE PolicyProfile.capabilities)
                    \cup OverrideCapabilities(PolicyOverrides.m["capabilities"])
                    \cup OverrideCapabilities(policy.second.m["capabilities"])

\* merged differs from base only at the keys that overrides names: a key that overrides
\* does not name keeps the value of base, a nested mapping named over a nested mapping
\* is compared key by key, a capabilities override extends the list, and any other
\* named key holds the value of the override
RECURSIVE OnlyNamedKeysChange(_, _, _)
OnlyNamedKeysChange(base, overrides, merged) ==
    /\ DOMAIN merged = DOMAIN base \cup DOMAIN overrides
    /\ \A key \in DOMAIN merged :
          IF key \notin DOMAIN overrides THEN merged[key] = base[key]
          ELSE IF key \in DOMAIN base /\ base[key].k = "map" /\ overrides[key].k = "map"
          THEN /\ merged[key].k = "map"
               /\ OnlyNamedKeysChange(base[key].m, overrides[key].m, merged[key].m)
          ELSE IF key = "capabilities" /\ overrides[key].k # "null"
          THEN merged[key].k = "list"
          ELSE merged[key] = overrides[key]

\* the mapping that _merge_metadata merges the overrides into
PolicyBase == IF PolicyProfile = NoProfile THEN [enabled |-> Bool(TRUE)] ELSE to_metadata(PolicyProfile)

\* C22: merging overrides into a profile changes only the keys the override names: a
\* scalar override replaces the default at that key, a nested mapping override is merged
\* key by key into the nested default, and every default key that the override does not
\* name keeps its default value
C22_MergeChangesOnlyNamedKeys ==
    (/\ policy.pc = "merged"
     /\ Truthy(PolicyOverrides)
     /\ policy.once.exc = "none")
    => OnlyNamedKeysChange(PolicyBase, PolicyOverrides.m, policy.once.value.m)

\* the claude profile was merged with an override of limits.memory_mb: the memory limit
\* is the override's and the cpu limit is the default
C22_MemoryOverriddenCpuKept ==
    /\ policy.pc = "merged"
    /\ policy.metadata = MdClaudeOverrides
    /\ policy.once.exc = "none"
    /\ policy.once.value.m["limits"].m["memory_mb"] = Num(1024)
    /\ policy.once.value.m["limits"].m["cpu"] = Float10(ClaudeProfile.limits.cpu)
    /\ policy.once.value.m["limits"].m["disk_mb"] = Num(ClaudeProfile.limits.disk_mb)

\* the agent value that the caller's metadata gives (null when there is none)
GivenAgent == IF Truthy(policy.metadata) THEN Get(policy.metadata.m, "agent") ELSE Null

\* the effective agent as the statement reads: the explicit agent, trimmed and
\* lower-cased, when one is given, else the first token of the command when that token
\* is codex or claude, else none
StatedAgent ==
    IF Truthy(GivenAgent) THEN Str(Lower(Strip(PyStr(GivenAgent))))
    ELSE IF Strip(policy.command) # <<>> /\ FirstToken(Strip(policy.command)) \in {CODEX, CLAUDE}
    THEN Str(FirstToken(Strip(policy.command)))
    ELSE Null

\* the effective agent with the two details the code adds: an explicit agent that is
\* blank after trimming is none, and the command is lower-cased before its first token
\* is compared
LoweredAgent ==
    IF Truthy(GivenAgent)
    THEN IF Strip(PyStr(GivenAgent)) = <<>> THEN Null ELSE Str(Lower(Strip(PyStr(GivenAgent))))
    ELSE IF Strip(policy.command) # <<>>
            /\ FirstToken(Lower(Strip(policy.command))) \in {CODEX, CLAUDE}
    THEN Str(FirstToken(Lower(Strip(policy.command))))
    ELSE Null

\* the agent key of the metadata that ensure_sandbox_metadata returned
RecordedAgent == Get(policy.result.value.m, "agent")

OtherAgentCall ==
    /\ policy.pc = "ensured"
    /\ _validate_command(policy.command).exc = "none"
    /\ LoweredAgent \notin {Str(CODEX), Str(CLAUDE)}

\* block is the caller's sandbox mapping merged into {enabled: true}: enabled is true,
\* the caller's other values are kept (a capabilities value as a list of the same
\* capabilities), and no other key such as profile or limits is added
CustomSandboxKept(given, block) ==
    /\ block.k = "map"
    /\ DOMAIN block.m = DOMAIN given \cup {"enabled"}
    /\ block.m["enabled"] = Bool(TRUE)
    /\ \A key \in DOMAIN given \ {"enabled"} :
          IF key = "capabilities" /\ given[key].k \in {"list", "str"}
          THEN ResultCapabilities(block) = OverrideCapabilities(given[key])
          ELSE block.m[key] = given[key]

\* C24: for an agent that is not codex or claude and a non-empty sandbox block from the
\* caller, ensure_sandbox_metadata returns a sandbox block equal to the caller's block
\* merged into {enabled: true}, with no default profile name or limits; when the caller
\* supplies no sandbox block, no sandbox key is added
C24_OtherAgentsKeepCustomSandbox ==
    OtherAgentCall
    => /\ (IsMapping(PolicyOverrides) /\ Truthy(PolicyOverrides))
            => /\ policy.result.exc = "none"
               /\ CustomSandboxKept(PolicyOverrides.m, Get(policy.result.value.m, "sandbox"))
       /\ (~Truthy(policy.metadata) \/ "sandbox" \notin DOMAIN policy.metadata.m)
            => /\ policy.result.exc = "none"
               /\ "sandbox" \notin DOMAIN policy.result.value.m

\* C25: build_submission(command, metadata) fails with SandboxError whenever the
\* effective agent is not codex or claude; for codex and claude, when the sandbox
\* overrides merge into the profile, it returns a payload that holds the agent, the
\* unchanged command, the profile's sandbox metadata with the overrides merged (profile
\* name and limits included) and the caller's remaining metadata
C25_SubmissionRequiresMandatoryAgent ==
    policy.pc = "submitted"
    => /\ LoweredAgent \notin {Str(CODEX), Str(CLAUDE)}
            => policy.submission.exc = "SandboxError"
       /\ (LoweredAgent \in {Str(CODEX), Str(CLAUDE)} /\ policy.once.exc = "none")
            => /\ policy.submission.exc = "none"
               /\ DOMAIN policy.submission.value.m = {"agent", "command", "sandbox", "metadata"}
               /\ policy.submission.value.m["agent"] = LoweredAgent
               /\ policy.submission.value.m["command"] = Str(policy.command)
               /\ policy.submission.value.m["sandbox"] = policy.once.value
               /\ {"profile", "limits"} \subseteq DOMAIN policy.submission.value.m["sandbox"].m
               /\ \A key \in DOMAIN Body(policy.metadata) \ {"agent", "sandbox"} :
                     Get(policy.submission.value.m["metadata"].m, key) = policy.metadata.m[key]

\* build_submission was called for a gemini task and failed with SandboxError
C25_GeminiSubmissionRejected ==
    /\ policy.pc = "submitted"
    /\ policy.command = CmdNpmTest
    /\ policy.metadata = MdGemini
    /\ ~policy.uses
    /\ policy.submission.exc = "SandboxError"

\* the task has a command that passes validation, an effective agent other than codex
\* and claude, metadata that ensure_sandbox_metadata accepts and no gates
PlainUnsandboxed(task) ==
    LET ensured == ensure_sandbox_metadata(task.command, RawMetadata(task))
    IN  /\ ensured.exc = "none"
        /\ ~IsSupported(EffectiveAgent(task.command, RawMetadata(task)))
        /\ ~Truthy(Get(ensured.value.m, "gates"))
        /\ ~ApprovalRaises(ensured.value)

\* the row shows no trace of a sandbox submission
NoSubmissionTrace(task) ==
    /\ "runtime" \notin DOMAIN Body(task.task_metadata)
    /\ \A i \in DOMAIN task.output : task.output[i] # "[runner] submitted to sandbox"

\* C26: a pass of the scheduler over a task with a valid command, an effective agent
\* other than codex and claude and no gates starts the task and goes on to the execution
\* without the submission step: task_metadata gains no runtime key, the output gains no
\* 'submitted to sandbox' line, and, when no exception ends the pass and no API call
\* changes the row meanwhile, the task ends COMPLETED
C26_NonSandboxTaskSkipsSubmission ==
    [][(RunnerStep /\ PlainUnsandboxed(runner.obj))
       => LET before == tasks[runner.tid]
              after == tasks'[runner.tid]
          IN  /\ runner.pc # "started"
              /\ runner'.pc # "started"
              /\ runner.pc = "process"
                 => /\ runner'.pc = "execute"
                    /\ after.status = "RUNNING"
              /\ NoSubmissionTrace(before) => NoSubmissionTrace(after)
              /\ (/\ runner.pc = "execute"
                  /\ before = runner.base
                  /\ after.status # "FAILED"
                  /\ runner.i = Chunks)
                 => /\ after.status = "COMPLETED"
                    /\ after.progress = 100
                    /\ NoSubmissionTrace(after)]_vars

\* C26 witness: a task 'npm test' of the agent gemini was run to completion and shows no
\* submission
C26_GeminiTaskCompleted ==
    \E id \in TaskIds :
        /\ tasks[id].command = CmdNpmTest
        /\ Get(Body(tasks[id].task_metadata), "agent") = Str(GEMINI)
        /\ tasks[id].status = "COMPLETED"
        /\ tasks[id].progress = 100
        /\ NoSubmissionTrace(tasks[id])

\* the confirm action of the task was accepted
Confirmed(id) == response.op = "confirm" /\ response.code = 200 /\ response.id = id

\* C27: liveness of the approval gate: when the user confirms a task that waits for
\* confirmation, a fairly scheduled scheduler eventually brings the task to COMPLETED or
\* FAILED
C27_ConfirmedTaskFinishes ==
    \A id \in 1..MaxTasks :
        Confirmed(id) ~> (id \in TaskIds /\ tasks[id].status \in {"COMPLETED", "FAILED"})

\* C28: the task that the scheduler selects is, at the time of the selection, PENDING or
\* RUNNING with started_at unset, and its scheduled_at is unset or not later than the
\* current time; a task in any other status or scheduled in the future is not selected
C28_OnlyEligibleSelected ==
    [][(runner.pc = "select" /\ runner'.pc = "process")
       => LET selected == tasks[runner'.tid]
          IN  /\ runner'.tid \in TaskIds
              /\ runner'.obj = selected
              /\ \/ selected.status = "PENDING"
                 \/ selected.status = "RUNNING" /\ selected.started_at = NoneInt
              /\ \/ selected.scheduled_at = NoneInt
                 \/ selected.scheduled_at <= now]_vars

\* C28 witness: a task scheduled for time 1 was selected when the time had come
C28_ScheduledTaskSelected ==
    /\ runner.pc = "process"
    /\ runner.obj.scheduled_at = 1
    /\ runner.obj.status = "PENDING"
    /\ now = 1

\* C29: a pass of the scheduler over a selected task ends with the gate, with the
\* completion, or, when an error was raised in it, with the error recorded in the task:
\* the task is FAILED with error set and exit_code 1; no error leaves _process_task for
\* the polling loop
C29_ProcessingErrorsRecorded ==
    [][(RunnerStep /\ runner'.tid = 0)
       => LET after == tasks'[runner.tid]
          IN  /\ ~runner'.logged
              /\ \/ after.status \in {"WAITING_CONFIRMATION", "COMPLETED"}
                 \/ /\ after.status = "FAILED"
                    /\ after.error # <<>>
                    /\ after.exit_code = 1]_vars

\* C30: an exception raised inside a polling iteration never ends the loop of the
\* scheduler: the loop logs it, sleeps and starts another iteration, so the loop comes
\* back to its top again and again
C30_LoopKeepsIterating ==
    /\ []<>(runner.pc = "select")
    /\ (runner.logged ~> (runner.pc = "select" /\ ~runner.logged))

\* C30 witness: an exception of an iteration was logged and the loop sleeps for the poll
\* interval
C30_ErrorLoggedLoopSleeps ==
    /\ runner.pc = "sleep"
    /\ runner.logged
    /\ runner.tid = 0

\* C31: within one execution attempt every increment of the scheduler writes the next of
\* the progress values 20, 40, 60, 80, 100 to the stored task, never less than the value
\* stored before and never more than 100, and the value is committed in the same step, so
\* each intermediate value is stored before the next one is written
C31_ProgressStepsCommitted ==
    [][(RunnerStep /\ runner.pc = "execute" /\ runner.i < Chunks
        /\ tasks'[runner.tid].status # "FAILED")
       => LET before == tasks[runner.tid]
              after == tasks'[runner.tid]
          IN  /\ after.progress = (runner.i + 1) * 20
              /\ after.progress <= 100
              /\ after.progress >= before.progress
              /\ runner.obj.progress # NoneInt => after.progress > runner.obj.progress
              /\ runner'.obj.progress = after.progress
              /\ after.output # <<>>
              /\ after.output[Len(after.output)] = ChunkLine[runner.i + 1]]_vars

\* C31 witness: the third increment of an attempt is stored while the attempt goes on
C31_ThirdIncrementStored ==
    /\ runner.pc = "execute"
    /\ runner.i = 3
    /\ tasks[runner.tid].progress = 60
    /\ tasks[runner.tid].status = "RUNNING"


\* C32: in every reachable state a COMPLETED task has exit_code 0, progress 100,
\* completed_at set and started_at set, and a FAILED task (only the scheduler writes that
\* status) has exit_code 1, a non-empty error and completed_at set, and a finished task
\* has a duration only when its started_at is set
C32_FinishedTasksWellFormed ==
    \A id \in DOMAIN tasks :
        LET task == tasks[id]
        IN  /\ task.status = "COMPLETED"
               => /\ task.exit_code = 0
                  /\ task.progress = 100
                  /\ task.completed_at # NoneInt
                  /\ task.started_at # NoneInt
            /\ task.status = "FAILED"
               => /\ task.exit_code = 1
                  /\ task.error # <<>>
                  /\ task.completed_at # NoneInt
            /\ (task.status \in {"COMPLETED", "FAILED"} /\ task.duration # NoneInt)
               => task.started_at # NoneInt


\* the command of the task passes the baseline validation of ensure_sandbox_metadata and
\* the strict classification of is_command_allowed
PassesBothCheckSets(task) ==
    /\ _validate_command(task.command).exc = "none"
    /\ is_command_allowed(task.command).allowed

\* C34: a task that never waits for confirmation and that the scheduler runs to COMPLETED
\* has a command that passes both check sets: the baseline validation of
\* ensure_sandbox_metadata and the strict classification of is_command_allowed
C34_UngatedCompletedPassBothChecks ==
    \A id \in 1..MaxTasks :
        [](id \in TaskIds => tasks[id].status # "WAITING_CONFIRMATION")
        => [](id \in TaskIds /\ tasks[id].status = "COMPLETED" => PassesBothCheckSets(tasks[id]))


\* C35: once the stored status of a task is CANCELLED it stays CANCELLED until an accepted
\* retry: no write of the scheduler changes it to COMPLETED, FAILED or anything else
C35_CancellationNotOverwritten ==
    [][\A id \in TaskIds :
          (tasks[id].status = "CANCELLED" /\ tasks'[id].status # "CANCELLED")
          => /\ response'.op = "retry"
             /\ response'.code = 200
             /\ response'.id = id
             /\ tasks'[id].status = "PENDING"]_vars


\* C37: every task that reaches status RUNNING with started_at set, started by the
\* scheduler or by the start action of its owner, eventually reaches COMPLETED, FAILED or
\* CANCELLED while the scheduler keeps running
C37_RunningTaskFinishes ==
    \A id \in 1..MaxTasks :
        (id \in TaskIds /\ tasks[id].status = "RUNNING" /\ tasks[id].started_at # NoneInt)
        ~> (id \in TaskIds /\ tasks[id].status \in {"COMPLETED", "FAILED", "CANCELLED"})


\* C40: a task whose metadata asks for approval and names gates all its life, and on
\* which no confirm action was ever accepted, never has started_at set and is never
\* COMPLETED, whatever the owner's start, cancel, retry and update calls and the
\* iterations of the scheduler are
C40_GateNotBypassed ==
    \A id \in 1..MaxTasks :
        ([](id \in TaskIds => GateRequested(tasks[id])) /\ []~Confirmed(id))
        => [](id \in TaskIds => /\ tasks[id].started_at = NoneInt
                               /\ tasks[id].status # "COMPLETED")


\* C38: with a running scheduler every task that is eligible for selection eventually
\* leaves the eligible set as WAITING_CONFIRMATION, COMPLETED or FAILED, whatever its
\* metadata was set to through create_task or update_task: no task is selected again and
\* again for ever
C38_EligibleTaskLeavesQueue ==
    \A id \in 1..MaxTasks :
        (id \in TaskIds /\ id \in Eligible)
        ~> (id \in TaskIds /\ tasks[id].status \in {"WAITING_CONFIRMATION", "COMPLETED", "FAILED"})


\* C33: after any sequence of start() and stop() calls on one TaskRunner at most one
\* coroutine of run is alive, and a task is held only by that coroutine: the instance
\* never processes two tasks at once
C33_AtMostOneLoop ==
    /\ service.loops <= 1
    /\ service.loops = 0 => runner.tid = 0
    /\ service.loops = 0 <=> runner.pc \in {"off", "done"}

\* C33 witness: start() was called after stop() while the loop was still processing a
\* task, and there is still one loop
C33_StartWhileLoopAlive ==
    /\ service.last = "start"
    /\ service.stop_event
    /\ service.loops = 1
    /\ runner.pc = "execute"


\* stop() only sets the flag: it changes neither the loop nor a stored task
StopOnlySetsFlag ==
    [][(\/ service'.last = "stop" /\ service.last # "stop"
        \/ service'.stop_event /\ ~service.stop_event)
       => /\ runner' = runner
          /\ tasks' = tasks
          /\ service'.stop_event]_vars

\* a task that is being executed when the flag is set is run to its end
InFlightTaskRunToEnd ==
    \A id \in 1..MaxTasks :
        (service.stop_event /\ runner.tid = id /\ runner.pc = "execute")
        ~> (id \in TaskIds /\ tasks[id].status \in {"COMPLETED", "FAILED"})

\* no task is selected at the top of the loop when the flag is set
NoSelectionOnceFlagSeen ==
    [][(service.stop_event /\ runner.pc = "select") => runner'.tid = 0]_vars

\* when the last call is start(), the loop is eventually alive with the flag clear, and
\* comes to its top to select tasks again and again
LastStartRevivesLoop ==
    <>[](service.last = "start")
    => /\ <>[](service.loops = 1 /\ ~service.stop_event)
       /\ []<>(runner.pc = "select" /\ ~service.stop_event)

\* C39: stop() only sets a flag that the loop tests at the top of an iteration, so a task
\* that is being executed is run to its end and no task is selected once the flag is seen;
\* and after any sequence of start() and stop() calls whose last call is start(), also a
\* start() made while a stop() still waits for the iteration in flight, the polling loop
\* is eventually active again and selects tasks
C39_StopFlagLifecycle ==
    /\ StopOnlySetsFlag
    /\ InFlightTaskRunToEnd
    /\ NoSelectionOnceFlagSeen
    /\ LastStartRevivesLoop


\* C36: with two scheduler instances on one tasks table every start of a task (the commit
\* of an instance that moves it to RUNNING with started_at set) finds the stored task
\* still PENDING and not started: no task is started by both instances
C36_TaskStartedByOneInstance ==
    [][(runner.pc = "process" /\ runner'.pc \in {"started", "execute"} /\ peer' = peer)
       => /\ tasks[runner.tid].status = "PENDING"
          /\ tasks[runner.tid].started_at = NoneInt]_vars

====
